---- MODULE Spec2Model ----
(***************************************************************************)
(* Model of the OpenWeatherMap JSON-to-dimension mapping:                  *)
(*   openweathermap/datasets/weather.py   classification tables and the    *)
(*                                        dimension dataclasses            *)
(*   openweathermap/datasets/shared.py    DimensionFactory, WeatherMapper  *)
(*   openweathermap/weather_processor.py  WeatherProcessor.process_item    *)
(*   utils/property_conversions.py        temperature unit conversion      *)
(*   utils/project_patterns.py            safe_decimal                     *)
(*                                                                         *)
(* Numbers are fixed point.  Wind speeds and precipitation volumes are in  *)
(* tenths (0.1 m/s, 0.1 mm); temperatures are in hundredths of a degree;   *)
(* a Celsius value after unit conversion is in 1/900 of a degree, which    *)
(* makes (t - 32) * 5 / 9 and t - 273.15 exact.  Humidity, pressure,       *)
(* degrees and condition codes are plain integers.                         *)
(*                                                                         *)
(* A Python value whose type the code does not control is a record         *)
(* [kind, val]: kind "absent" (key not in the dict), "None", "str" (a      *)
(* non-numeric string), "obj" (a JSON object) or "num".                    *)
(***************************************************************************)
EXTENDS Integers, Sequences, FiniteSets, TLC

VARIABLES
    pc,                 \* position of process_item
    processor,          \* "current" (CurrentWeatherProcessor) or "forecast"
    data_item,          \* the JSON item handed to process_item
    weather_conditions, \* context.weather_conditions
    weather_dto,        \* context.weather_dto
    dimensions,         \* context.dimensions
    date_time_dims,     \* context.date_dim and context.time_dim are set
    fact,               \* the fact object of step 5
    returned,           \* what process_item returned: "pending", "None", "result"
    raised,             \* the exception that left process_item, or "none"
    fn,                 \* classification function last applied on its own
    arg,                \* its argument
    ret                 \* its result

vars == <<pc, processor, data_item, weather_conditions, weather_dto, dimensions,
          date_time_dims, fact, returned, raised, fn, arg, ret>>

item_vars == <<pc, processor, data_item, weather_conditions, weather_dto,
               dimensions, date_time_dims, fact, returned, raised>>

call_vars == <<fn, arg, ret>>

----------------------------------------------------------------------------
(* Python values *)

Absent == [kind |-> "absent", val |-> 0]
None == [kind |-> "None", val |-> 0]
Str == [kind |-> "str", val |-> 0]
Obj == [kind |-> "obj", val |-> 0]
Num(n) == [kind |-> "num", val |-> n]

\* dict.get(key, default)
Get(v, default) == IF v.kind = "absent" THEN default ELSE v

\* the outcome of a call: a value, or an exception
Ok(v) == [exc |-> "none", val |-> v]
Raise(e, v) == [exc |-> e, val |-> v]

\* float('inf') / Decimal('inf'): above every number the model draws
Inf == 1000000000

----------------------------------------------------------------------------
(* bisect.bisect_right and list indexing *)

RECURSIVE bisect_loop(_, _, _, _)
bisect_loop(a, x, lo, hi) ==
    IF lo < hi
    THEN LET mid == (lo + hi) \div 2
         IN  IF x < a[mid + 1]
             THEN bisect_loop(a, x, lo, mid)
             ELSE bisect_loop(a, x, mid + 1, hi)
    ELSE lo

bisect_right(a, x) == bisect_loop(a, x, 0, Len(a))

\* categories[index] of a Python list: IndexError past the end
ListIndex(categories, index, v) ==
    IF index < Len(categories) THEN Ok(categories[index + 1])
    ELSE Raise("IndexError", v)

----------------------------------------------------------------------------
(* utils/property_conversions.py; the result is in 1/900 degree Celsius,   *)
(* the argument in hundredths of a degree of the unit                      *)

fahrenheit_to_celsius(fahrenheit) == (fahrenheit - 3200) * 5

kelvin_to_celsius(kelvin) == (kelvin - 27315) * 9

temp_unit_conversion(temperature, unit) ==
    IF unit = "F" THEN Ok(fahrenheit_to_celsius(temperature))
    ELSE IF unit = "K" THEN Ok(kelvin_to_celsius(temperature))
    ELSE IF unit # "C" THEN Raise("ValueError", 0)
    ELSE Ok(temperature * 9)

\* a table of whole degrees Celsius in 1/900 degree
Celsius(table) == [i \in DOMAIN table |-> 900 * table[i]]

----------------------------------------------------------------------------
(* The classification tables of datasets/weather.py *)

BeaufortNames ==
    <<"Calm", "Light Air", "Light Breeze", "Gentle Breeze", "Moderate Breeze",
      "Fresh Breeze", "Strong Breeze", "Near Gale", "Gale", "Strong Gale",
      "Storm", "Violent Storm", "Hurricane">>

\* BeaufortCategory.wind_force_cat: 12 boundaries, 13 categories
wind_force_cat(speed) ==
    LET boundaries == <<5, 15, 33, 55, 79, 107, 138, 171, 207, 244, 284, 326>>
        index == bisect_right(boundaries, speed)
    IN  ListIndex(BeaufortNames, index, "")

\* beaufort_scale with two scale numbers exchanged in the list
beaufort_scale_swapped(speed) ==
    LET boundaries == <<5, 15, 33, 55, 79, 107, 138, 171, 207, 244, 284, 326, Inf>>
        categories == <<0, 1, 2, 3, 4, 5, 7, 6, 8, 9, 10, 11, 12>>
        index == bisect_right(boundaries, speed)
    IN  ListIndex(categories, index, 0)

\* BeaufortCategory.beaufort_scale: 13 boundaries (the last is inf), 13 numbers
beaufort_scale(speed) ==
    LET boundaries == <<5, 15, 33, 55, 79, 107, 138, 171, 207, 244, 284, 326, Inf>>
        categories == <<0, 1, 2, 3, 4, 5, 6, 7, 8, 9, 10, 11, 12>>
        index == bisect_right(boundaries, speed)
    IN  ListIndex(categories, index, 0)

\* BeaufortCategory.__init__(self, scale): Enum hands it the member's value,
\* so the member's scale attribute is its name string
BeaufortCategory_scale(category) == category

ComfortLevelNames ==
    <<"Very Cold", "Cold", "Cool", "Comfortable", "Warm", "Hot", "Very Hot">>

comfort_level(temperature, unit) ==
    LET temp_celsius == temp_unit_conversion(temperature, unit)
        boundaries == Celsius(<<-10, 0, 10, 18, 24, 29, 35>>)
    IN  IF temp_celsius.exc # "none" THEN Raise(temp_celsius.exc, "")
        ELSE ListIndex(ComfortLevelNames,
                       bisect_right(boundaries, temp_celsius.val), "")

TemperatureCategoryNames ==
    <<"Extreme Cold", "Very Cold", "Freezing", "Cold", "Cool", "Mild", "Warm",
      "Hot", "Extreme Hot">>

temperature_category(temperature, unit) ==
    LET temp_celsius == temp_unit_conversion(temperature, unit)
        boundaries == Celsius(<<-20, -10, 0, 10, 18, 24, 29, 35>>)
    IN  IF temp_celsius.exc # "none" THEN Raise(temp_celsius.exc, "")
        ELSE ListIndex(TemperatureCategoryNames,
                       bisect_right(boundaries, temp_celsius.val), "")

HumidityCategoryNames == <<"dry", "comfortable", "humid", "very_humid">>

humidity_category(humidity) ==
    LET boundaries == <<30, 50, 70, 100>>
        index == bisect_right(boundaries, humidity)
    IN  ListIndex(HumidityCategoryNames, index, "")

IntensityCategoryNames ==
    <<"none", "very_light", "light", "moderate", "heavy", "extreme">>

intensity_category(vol) ==
    LET boundaries == <<0, 100, 300, 500, 700, Inf>>
        index == bisect_right(boundaries, vol)
    IN  ListIndex(IntensityCategoryNames, index, "")

PressureCategoryNames ==
    <<"Very Low", "Low", "Normal Low", "Normal High", "High", "Very High">>

\* the table of DimPressure._pressure_category
pressure_category(pressure) ==
    LET thresholds == <<980, 1000, 1015, 1025, 1040>>
        index == bisect_right(thresholds, pressure)
    IN  ListIndex(PressureCategoryNames, index, "")

----------------------------------------------------------------------------
(* The dimension dataclasses of datasets/weather.py.  An Optional[str]     *)
(* field that is None holds NoneStr.                                       *)

NoneStr == "<None>"

\* the value of DimWind.beaufort_scale: the int default, or what
\* _wind_force_category stores
IntScale(n) == [kind |-> "int", num |-> n, name |-> ""]
NameScale(s) == [kind |-> "str", num |-> 0, name |-> s]

WindDirections ==
    <<"N", "NNE", "NE", "ENE", "E", "ESE", "SE", "SSE",
      "S", "SSW", "SW", "WSW", "W", "WNW", "NW", "NNW">>

\* DimWind(...) before __post_init__
DimWind(wind_id, speed, degrees) ==
    [wind_id |-> wind_id, speed |-> speed, degrees |-> degrees,
     direction_cardinal |-> NoneStr, beaufort_scale |-> IntScale(-99),
     beaufort_description |-> NoneStr]

\* _direction_cardinal without the half-sector offset of 11.25 degrees
DimWind_direction_cardinal_no_offset(self) ==
    IF self.degrees.kind # "num" THEN Raise("TypeError", self)
    ELSE LET index == (((4 * self.degrees.val) % 1440) \div 90)
             d == ListIndex(WindDirections, index, "")
         IN  IF d.exc # "none" THEN Raise(d.exc, self)
             ELSE Ok([self EXCEPT !.direction_cardinal = d.val])

\* index = int((self.degrees + 11.25) % 360 / 22.5), in quarter degrees
DimWind_direction_cardinal(self) ==
    IF self.degrees.kind # "num" THEN Raise("TypeError", self)
    ELSE LET index == (((4 * self.degrees.val + 45) % 1440) \div 90)
             d == ListIndex(WindDirections, index, "")
         IN  IF d.exc # "none" THEN Raise(d.exc, self)
             ELSE Ok([self EXCEPT !.direction_cardinal = d.val])

DimWind_wind_force_category(self) ==
    LET category == wind_force_cat(self.speed)
    IN  IF category.exc # "none" THEN Raise(category.exc, self)
        ELSE Ok([self EXCEPT
                   !.beaufort_scale = NameScale(BeaufortCategory_scale(category.val))])

DimWind_post_init(self) ==
    LET s1 == IF self.direction_cardinal = NoneStr
              THEN DimWind_direction_cardinal(self) ELSE Ok(self)
    IN  IF s1.exc # "none" THEN s1
        ELSE IF s1.val.beaufort_scale = IntScale(-99)
                \/ s1.val.beaufort_description = NoneStr
             THEN DimWind_wind_force_category(s1.val)
             ELSE s1

\* the _beaufort_scale property
DimWind_beaufort_scale(self) == beaufort_scale(self.speed)

\* DimTemperature(...) before __post_init__; temp_min, temp_max and
\* temp_range are None, Num(Inf) or a number
DimTemperature(temperature_id, temperature, temp_min, temp_max, comfort, category, temp_range) ==
    [temperature_id |-> temperature_id, temperature |-> temperature,
     temp_min |-> temp_min, temp_max |-> temp_max, comfort_level |-> comfort,
     temperature_category |-> category, temp_range |-> temp_range]

DimTemperature_comfort_level(self) ==
    LET r == comfort_level(self.temperature, "F")
    IN  IF r.exc # "none" THEN Raise(r.exc, self)
        ELSE Ok([self EXCEPT !.comfort_level = r.val])

DimTemperature_temperature_category(self) ==
    LET r == temperature_category(self.temperature, "F")
    IN  IF r.exc # "none" THEN Raise(r.exc, self)
        ELSE Ok([self EXCEPT !.temperature_category = r.val])

\* _temp_range subtracting the maximum from the minimum
DimTemperature_temp_range_reversed(self) ==
    IF /\ self.temp_min # None /\ self.temp_max # None
       /\ self.temp_min # Num(Inf) /\ self.temp_max # Num(Inf)
    THEN Ok([self EXCEPT !.temp_range = Num(self.temp_min.val - self.temp_max.val)])
    ELSE Ok([self EXCEPT !.temp_range = Num(Inf)])

DimTemperature_temp_range(self) ==
    IF /\ self.temp_min # None /\ self.temp_max # None
       /\ self.temp_min # Num(Inf) /\ self.temp_max # Num(Inf)
    THEN Ok([self EXCEPT !.temp_range = Num(self.temp_max.val - self.temp_min.val)])
    ELSE Ok([self EXCEPT !.temp_range = Num(Inf)])

DimTemperature_post_init(self) ==
    LET s1 == IF self.comfort_level = NoneStr
              THEN DimTemperature_comfort_level(self) ELSE Ok(self)
        s2 == IF s1.exc # "none" THEN s1
              ELSE IF s1.val.temperature_category = NoneStr
                   THEN DimTemperature_temperature_category(s1.val) ELSE s1
    IN  IF s2.exc # "none" THEN s2
        ELSE IF s2.val.temp_range = Num(Inf)
             THEN DimTemperature_temp_range(s2.val) ELSE s2

\* DimPressure(...) before __post_init__
DimPressure(pressure_id, pressure, category, is_normal_range, storm_potential) ==
    [pressure_id |-> pressure_id, pressure |-> pressure,
     pressure_category |-> category, is_normal_range |-> is_normal_range,
     storm_potential |-> storm_potential]

DimPressure_pressure_category(self) ==
    IF self.pressure.kind # "num" THEN Raise("TypeError", self)
    ELSE LET category == pressure_category(self.pressure.val)
         IN  IF category.exc # "none" THEN Raise(category.exc, self)
             ELSE Ok([self EXCEPT !.pressure_category = category.val])

DimPressure_is_normal_range(self) ==
    IF self.pressure.kind # "num" THEN Raise("TypeError", self)
    ELSE Ok([self EXCEPT !.is_normal_range =
                (1000 <= self.pressure.val /\ self.pressure.val <= 1025)])

\* _storm_potential assigns self.is_normal_range, not self.storm_potential
DimPressure_storm_potential(self) ==
    IF self.pressure.kind # "num" THEN Raise("TypeError", self)
    ELSE Ok([self EXCEPT !.is_normal_range = (self.pressure.val < 995)])

DimPressure_post_init(self) ==
    LET s1 == IF self.pressure_category = NoneStr
              THEN DimPressure_pressure_category(self) ELSE Ok(self)
        s2 == IF s1.exc # "none" THEN s1
              ELSE IF s1.val.is_normal_range = FALSE
                   THEN DimPressure_is_normal_range(s1.val) ELSE s1
    IN  IF s2.exc # "none" THEN s2
        ELSE IF s2.val.storm_potential = FALSE
             THEN DimPressure_storm_potential(s2.val) ELSE s2

\* DimHumidity(...) before __post_init__
DimHumidity(humidity_id, humidity, category, comfort_impact, is_dew_point_risk, mold_risk_level) ==
    [humidity_id |-> humidity_id, humidity |-> humidity,
     humidity_category |-> category, comfort_impact |-> comfort_impact,
     is_dew_point_risk |-> is_dew_point_risk, mold_risk_level |-> mold_risk_level]

DimHumidity_humidity_category(self) ==
    IF self.humidity.kind # "num" THEN Raise("TypeError", self)
    ELSE LET category == humidity_category(self.humidity.val)
         IN  IF category.exc # "none" THEN Raise(category.exc, self)
             ELSE Ok([self EXCEPT !.humidity_category = category.val])

DimHumidity_comfort_impact(self) ==
    IF self.humidity.kind # "num" THEN Raise("TypeError", self)
    ELSE LET h == self.humidity.val
             comfort_impact ==
                 IF h < 30 THEN "May cause dry skin and respiratory discomfort"
                 ELSE IF h <= 50 THEN "Optimal comfort range"
                 ELSE IF h <= 70 THEN "May feel sticky or muggy"
                 ELSE "Uncomfortable, potential heat stress when warm"
         IN  Ok([self EXCEPT !.comfort_impact = comfort_impact])

DimHumidity_is_dew_point_risk(self) ==
    IF self.humidity.kind # "num" THEN Raise("TypeError", self)
    ELSE Ok([self EXCEPT !.is_dew_point_risk = (self.humidity.val > 85)])

DimHumidity_mold_risk_level(self) ==
    IF self.humidity.kind # "num" THEN Raise("TypeError", self)
    ELSE LET h == self.humidity.val
             mold_risk_level == IF h < 60 THEN "Low"
                                ELSE IF h <= 80 THEN "Moderate"
                                ELSE "High"
         IN  Ok([self EXCEPT !.mold_risk_level = mold_risk_level])

DimHumidity_post_init(self) ==
    LET s1 == IF self.humidity_category = NoneStr
              THEN DimHumidity_humidity_category(self) ELSE Ok(self)
        s2 == IF s1.exc # "none" THEN s1
              ELSE IF s1.val.comfort_impact = NoneStr
                   THEN DimHumidity_comfort_impact(s1.val) ELSE s1
        s3 == IF s2.exc # "none" THEN s2
              ELSE IF s2.val.is_dew_point_risk = FALSE
                   THEN DimHumidity_is_dew_point_risk(s2.val) ELSE s2
    IN  IF s3.exc # "none" THEN s3
        ELSE IF s3.val.mold_risk_level = NoneStr
             THEN DimHumidity_mold_risk_level(s3.val) ELSE s3

\* DimPrecipitation(...) before __post_init__; the volumes are None or a number
DimPrecipitation(precipitation_id, precipitation_type, volume_1h, volume_3h, intensity, impact_level, flooding_risk) ==
    [precipitation_id |-> precipitation_id,
     precipitation_type |-> precipitation_type,
     volume_1h |-> volume_1h, volume_3h |-> volume_3h,
     intensity_category |-> intensity, impact_level |-> impact_level,
     flooding_risk |-> flooding_risk]

DimPrecipitation_intensity_category(self) ==
    LET r == IF self.volume_1h # None THEN intensity_category(self.volume_1h.val)
             ELSE IF self.volume_3h # None THEN intensity_category(self.volume_3h.val)
             ELSE Ok("none")
    IN  IF r.exc # "none" THEN Raise(r.exc, self)
        ELSE Ok([self EXCEPT !.intensity_category = r.val])

\* _impact_level with the moderate test ahead of the significant test
impact_level_reordered(precipitation_type, volume_1h, volume_3h) ==
    LET no_precip_type == precipitation_type = "none"
        zero_1h_volume == volume_1h # None /\ volume_1h.val = 0
        zero_3h_volume == volume_1h = None /\ volume_3h # None /\ volume_3h.val = 0
        is_rain_or_snow == precipitation_type \in {"rain", "snow"}
        heavy_1h == volume_1h # None /\ volume_1h.val > 150
        heavy_3h == volume_3h # None /\ volume_3h.val > 450
        includes_sleet == precipitation_type \in {"rain", "snow", "sleet"}
        significant_1h ==
            volume_1h # None /\ 75 <= volume_1h.val /\ volume_1h.val <= 150
        significant_3h ==
            volume_3h # None /\ 225 <= volume_3h.val /\ volume_3h.val <= 450
        moderate_1h == volume_1h # None /\ 25 <= volume_1h.val /\ volume_1h.val < 75
        moderate_3h == volume_3h # None /\ 75 <= volume_3h.val /\ volume_3h.val < 225
    IN  IF no_precip_type \/ zero_1h_volume \/ zero_3h_volume THEN "none"
        ELSE IF is_rain_or_snow /\ (heavy_1h \/ heavy_3h) THEN "severe"
        ELSE IF moderate_1h \/ moderate_3h THEN "moderate"
        ELSE IF includes_sleet /\ (significant_1h \/ significant_3h) THEN "significant"
        ELSE "minimal"

\* the value _impact_level stores
impact_level(precipitation_type, volume_1h, volume_3h) ==
    LET no_precip_type == precipitation_type = "none"
        zero_1h_volume == volume_1h # None /\ volume_1h.val = 0
        zero_3h_volume == volume_1h = None /\ volume_3h # None /\ volume_3h.val = 0
        is_rain_or_snow == precipitation_type \in {"rain", "snow"}
        heavy_1h == volume_1h # None /\ volume_1h.val > 150
        heavy_3h == volume_3h # None /\ volume_3h.val > 450
        includes_sleet == precipitation_type \in {"rain", "snow", "sleet"}
        significant_1h ==
            volume_1h # None /\ 75 <= volume_1h.val /\ volume_1h.val <= 150
        significant_3h ==
            volume_3h # None /\ 225 <= volume_3h.val /\ volume_3h.val <= 450
        moderate_1h == volume_1h # None /\ 25 <= volume_1h.val /\ volume_1h.val < 75
        moderate_3h == volume_3h # None /\ 75 <= volume_3h.val /\ volume_3h.val < 225
    IN  IF no_precip_type \/ zero_1h_volume \/ zero_3h_volume THEN "none"
        ELSE IF is_rain_or_snow /\ (heavy_1h \/ heavy_3h) THEN "severe"
        ELSE IF includes_sleet /\ (significant_1h \/ significant_3h) THEN "significant"
        ELSE IF moderate_1h \/ moderate_3h THEN "moderate"
        ELSE "minimal"

DimPrecipitation_impact_level(self) ==
    Ok([self EXCEPT !.impact_level =
           impact_level(self.precipitation_type, self.volume_1h, self.volume_3h)])

\* the value _flooding_risk stores
\* _flooding_risk that rates snow like rain
flooding_risk_rain_or_snow(precipitation_type, volume_1h, volume_3h) ==
    LET high_1h == volume_1h # None /\ volume_1h.val > 100
        high_3h == volume_3h # None /\ volume_3h.val > 300
        moderate_1h == volume_1h # None /\ 50 <= volume_1h.val /\ volume_1h.val <= 100
        moderate_3h == volume_3h # None /\ 150 <= volume_3h.val /\ volume_3h.val <= 300
    IN  IF precipitation_type \notin {"rain", "snow"} THEN "none"
        ELSE IF high_1h \/ high_3h THEN "high"
        ELSE IF moderate_1h \/ moderate_3h THEN "moderate"
        ELSE "low"

flooding_risk(precipitation_type, volume_1h, volume_3h) ==
    LET high_1h == volume_1h # None /\ volume_1h.val > 100
        high_3h == volume_3h # None /\ volume_3h.val > 300
        moderate_1h == volume_1h # None /\ 50 <= volume_1h.val /\ volume_1h.val <= 100
        moderate_3h == volume_3h # None /\ 150 <= volume_3h.val /\ volume_3h.val <= 300
    IN  IF precipitation_type # "rain" THEN "none"
        ELSE IF high_1h \/ high_3h THEN "high"
        ELSE IF moderate_1h \/ moderate_3h THEN "moderate"
        ELSE "low"

DimPrecipitation_flooding_risk(self) ==
    Ok([self EXCEPT !.flooding_risk =
           flooding_risk(self.precipitation_type, self.volume_1h, self.volume_3h)])

DimPrecipitation_post_init(self) ==
    LET s1 == IF self.intensity_category = NoneStr
              THEN DimPrecipitation_intensity_category(self) ELSE Ok(self)
        s2 == IF s1.exc # "none" THEN s1
              ELSE IF s1.val.impact_level = NoneStr
                   THEN DimPrecipitation_impact_level(s1.val) ELSE s1
    IN  IF s2.exc # "none" THEN s2
        ELSE IF s2.val.flooding_risk = NoneStr
             THEN DimPrecipitation_flooding_risk(s2.val) ELSE s2

\* DimWeatherCondition(...) before __post_init__
DimWeatherCondition(condition_id, is_precipitation, is_extreme) ==
    [condition_id |-> condition_id, is_precipitation |-> is_precipitation,
     is_extreme |-> is_extreme]

extreme_ranges ==
    <<<<202, 232>>, <<504, 531>>, <<602, 622>>, <<751, 781>>, <<900, 906>>,
      <<961, 962>>>>

\* _is_extreme_weather with the upper end of each range excluded
DimWeatherCondition_is_extreme_open(self) ==
    [self EXCEPT !.is_extreme =
        \E i \in DOMAIN extreme_ranges :
            /\ extreme_ranges[i][1] <= self.condition_id
            /\ self.condition_id < extreme_ranges[i][2]]

DimWeatherCondition_is_extreme_weather(self) ==
    [self EXCEPT !.is_extreme =
        \E i \in DOMAIN extreme_ranges :
            /\ extreme_ranges[i][1] <= self.condition_id
            /\ self.condition_id <= extreme_ranges[i][2]]

DimWeatherCondition_post_init(self) ==
    IF self.is_extreme = FALSE THEN DimWeatherCondition_is_extreme_weather(self)
    ELSE self

----------------------------------------------------------------------------
(* datasets/shared.py: DimensionFactory and WeatherMapper *)

create_wind_dimension(speed, degrees) ==
    DimWind_post_init(DimWind(-1, speed, degrees))

create_temperature_dimension(temperature, temp_min, temp_max, comfort, category, temp_range) ==
    DimTemperature_post_init(
        DimTemperature(-1, temperature, temp_min, temp_max, comfort, category,
                       temp_range))

create_pressure_dimension(pressure, category, is_normal_range, storm_potential) ==
    DimPressure_post_init(
        DimPressure(-1, pressure, category, is_normal_range, storm_potential))

create_humidity_dimension(humidity, category, comfort_impact, is_dew_point_risk, mold_risk_level) ==
    DimHumidity_post_init(
        DimHumidity(-1, humidity, category, comfort_impact, is_dew_point_risk,
                    mold_risk_level))

create_precipitation_dimension(precipitation_type, volume_1h, volume_3h, intensity, impact, flooding) ==
    DimPrecipitation_post_init(
        DimPrecipitation(-1, precipitation_type, volume_1h, volume_3h, intensity,
                         impact, flooding))

\* WeatherDataDTO(...) as create_weather_dto builds it: the derived fields and
\* the precipitation fields keep the dataclass defaults
WeatherDataDTO(temperature, temp_min, temp_max, pressure, humidity, wind_speed, wind_degrees) ==
    [kind |-> "dto",
     temperature |-> temperature, temp_min |-> temp_min, temp_max |-> temp_max,
     comfort_level |-> NoneStr, temperature_category |-> NoneStr,
     temp_range |-> Num(Inf),
     pressure |-> pressure, pressure_category |-> NoneStr,
     is_normal_range |-> FALSE, storm_potential |-> FALSE,
     humidity |-> humidity, humidity_category |-> NoneStr,
     comfort_impact |-> NoneStr, is_dew_point_risk |-> FALSE,
     wind_speed |-> wind_speed, wind_degrees |-> wind_degrees,
     precipitation_type |-> "none",
     precipitation_volume_1h |-> None, precipitation_volume_3h |-> None,
     intensity_category |-> NoneStr, impact_level |-> NoneStr,
     flooding_risk |-> NoneStr]

NoneDims ==
    [kind |-> "None", wind |-> <<>>, temperature |-> <<>>, pressure |-> <<>>,
     humidity |-> <<>>, precipitation |-> <<>>]

\* WeatherMapper.dto_to_dimensions: the dict literal is evaluated in the
\* order wind, temperature, pressure, humidity, precipitation; the first
\* exception leaves it
dto_to_dimensions(dto) ==
    LET wind == create_wind_dimension(dto.wind_speed, dto.wind_degrees)
        temperature ==
            create_temperature_dimension(dto.temperature, dto.temp_min, dto.temp_max,
                dto.comfort_level, dto.temperature_category, dto.temp_range)
        pressure ==
            create_pressure_dimension(dto.pressure, dto.pressure_category,
                dto.is_normal_range, dto.storm_potential)
        humidity ==
            create_humidity_dimension(dto.humidity, dto.humidity_category,
                dto.comfort_impact, dto.is_dew_point_risk, NoneStr)
        precipitation ==
            create_precipitation_dimension(dto.precipitation_type,
                dto.precipitation_volume_1h, dto.precipitation_volume_3h,
                dto.intensity_category, dto.impact_level, dto.flooding_risk)
    IN  IF wind.exc # "none" THEN Raise(wind.exc, NoneDims)
        ELSE IF temperature.exc # "none" THEN Raise(temperature.exc, NoneDims)
        ELSE IF pressure.exc # "none" THEN Raise(pressure.exc, NoneDims)
        ELSE IF humidity.exc # "none" THEN Raise(humidity.exc, NoneDims)
        ELSE IF precipitation.exc # "none" THEN Raise(precipitation.exc, NoneDims)
        ELSE Ok([kind |-> "dict", wind |-> wind.val,
                 temperature |-> temperature.val, pressure |-> pressure.val,
                 humidity |-> humidity.val, precipitation |-> precipitation.val])

----------------------------------------------------------------------------
(* utils/project_patterns.py *)

\* safe_decimal: Decimal(str(value)); a value that is no number gives the
\* default 0.0
safe_decimal(value) == IF value.kind = "num" THEN value ELSE Num(0)

----------------------------------------------------------------------------
(* weather_processor.py.  A JSON item is a record: main, wind, rain, snow,  *)
(* coord are "absent", "None" or "obj"; the fields of an object are Python  *)
(* values; weather is [kind, ids], the ids of the entries of the list.      *)

DefaultCondition == DimWeatherCondition_post_init(DimWeatherCondition(800, FALSE, FALSE))

\* DimWeatherCondition.from_dict on the dict built for one entry of "weather":
\* int(condition_id) unless it is an int
WeatherCondition_from_entry(id) ==
    LET condition_id == Get(id, Num(800))
    IN  IF condition_id = Num(Inf) THEN Raise("OverflowError", DefaultCondition)
        ELSE IF condition_id.kind = "num"
        THEN Ok(DimWeatherCondition_post_init(
                    DimWeatherCondition(condition_id.val, FALSE, FALSE)))
        ELSE IF condition_id.kind = "str" THEN Raise("ValueError", DefaultCondition)
        ELSE Raise("TypeError", DefaultCondition)

\* the first entry that raises ends the loop: ValueError, TypeError and
\* AttributeError give the default condition, any other exception escapes
create_weather_conditions(item) ==
    IF item.weather.kind = "absent" THEN Ok(<<DefaultCondition>>)
    ELSE IF item.weather.kind # "list" THEN Ok(<<DefaultCondition>>)
    ELSE LET made == [i \in DOMAIN item.weather.ids |->
                         WeatherCondition_from_entry(item.weather.ids[i])]
             failed == {i \in DOMAIN made : made[i].exc # "none"}
             first == CHOOSE i \in failed : \A j \in failed : i <= j
         IN  IF failed # {}
             THEN IF made[first].exc \in {"ValueError", "TypeError", "AttributeError"}
                  THEN Ok(<<DefaultCondition>>)
                  ELSE Raise(made[first].exc, <<>>)
             ELSE IF made = <<>> THEN Ok(<<DefaultCondition>>)
             ELSE Ok([i \in DOMAIN made |-> made[i].val])

NoneDto == [kind |-> "None"]

\* create_weather_dto: None when "main" or "wind" is not an object
\* create_weather_dto storing the temperature converted from Kelvin to Celsius
create_weather_dto_celsius(item) ==
    IF item.main = "None" \/ item.wind = "None" THEN Raise("AttributeError", NoneDto)
    ELSE Ok(WeatherDataDTO(
                safe_decimal(Get(item.temp, Num(27315))).val - 27315,
                safe_decimal(Get(item.temp_min, Num(27315))),
                safe_decimal(Get(item.temp_max, Num(27315))),
                Get(item.pressure, Num(1013)),
                Get(item.humidity, Num(50)),
                safe_decimal(Get(item.speed, Num(0))).val,
                Get(item.deg, Num(0))))

create_weather_dto(item) ==
    IF item.main = "None" \/ item.wind = "None" THEN Raise("AttributeError", NoneDto)
    ELSE Ok(WeatherDataDTO(
                safe_decimal(Get(item.temp, Num(27315))).val,
                safe_decimal(Get(item.temp_min, Num(27315))),
                safe_decimal(Get(item.temp_max, Num(27315))),
                Get(item.pressure, Num(1013)),
                Get(item.humidity, Num(50)),
                safe_decimal(Get(item.speed, Num(0))).val,
                Get(item.deg, Num(0))))

\* the key of the volume the processor reads and the DTO field it sets
VolumeOf(proc, item, what) ==
    IF proc = "current"
    THEN (IF what = "rain" THEN item.rain_1h ELSE item.snow_1h)
    ELSE (IF what = "rain" THEN item.rain_3h ELSE item.snow_3h)

\* process_precipitation with the "snow" key tested ahead of the "rain" key
process_precipitation_snow_first(proc, item, dto) ==
    LET what == IF item.snow # "absent" THEN "snow"
                ELSE IF item.rain # "absent" THEN "rain" ELSE "none"
        holder == IF what = "rain" THEN item.rain ELSE item.snow
        volume == IF what = "none" THEN None
                  ELSE safe_decimal(Get(VolumeOf(proc, item, what), Num(0)))
    IN  IF what # "none" /\ holder = "None" THEN dto
        ELSE IF proc = "current"
             THEN [dto EXCEPT !.precipitation_type = what,
                              !.precipitation_volume_1h = volume]
             ELSE [dto EXCEPT !.precipitation_type = what,
                              !.precipitation_volume_3h = volume]

\* process_precipitation of CurrentWeatherProcessor and ForecastProcessor: an
\* exception is caught and leaves the DTO as it was
process_precipitation(proc, item, dto) ==
    LET what == IF item.rain # "absent" THEN "rain"
                ELSE IF item.snow # "absent" THEN "snow" ELSE "none"
        holder == IF what = "rain" THEN item.rain ELSE item.snow
        volume == IF what = "none" THEN None
                  ELSE safe_decimal(Get(VolumeOf(proc, item, what), Num(0)))
    IN  IF what # "none" /\ holder = "None" THEN dto
        ELSE IF proc = "current"
             THEN [dto EXCEPT !.precipitation_type = what,
                              !.precipitation_volume_1h = volume]
             ELSE [dto EXCEPT !.precipitation_type = what,
                              !.precipitation_volume_3h = volume]

\* the exceptions create_dimensions and process_item catch
Caught == {"ValueError", "TypeError", "KeyError", "AttributeError"}

NoneFact == [kind |-> "None", item_id |-> 0, condition_ids |-> <<>>]

\* create_fact_object of both processors: None when the context holds no
\* dimensions, or on an exception of Caught ("coord" that is no object for the
\* current weather, "pop" that cannot be multiplied for the forecast)
create_fact_object(proc, item, item_id, conditions, dims, date_time) ==
    IF dims.kind = "None" \/ ~date_time THEN NoneFact
    ELSE IF proc = "current" /\ item.coord = "None" THEN NoneFact
    ELSE IF proc = "forecast" /\ item.pop = None THEN NoneFact
    ELSE [kind |-> IF proc = "current" THEN "FactCurrentWeather" ELSE "FactForecast",
          item_id |-> item_id,
          condition_ids |-> [i \in DOMAIN conditions |-> conditions[i].condition_id]]

----------------------------------------------------------------------------
(* The JSON items process_item is given *)

Temperatures == {-400, 5000, 8060, 9500, 30000}
Humidities == {0, 30, 90, 100}
Pressures == {900, 994, 1013, 1100}
Speeds == {0, 150}
Degrees == {0, 360}
Volumes == {0, 200}

Nums(S) == {Num(n) : n \in S}

\* an object that is missing or null has no fields
WellFormed(item) ==
    /\ item.main # "obj" =>
           /\ item.temp = Absent /\ item.humidity = Absent
           /\ item.pressure = Absent
    /\ item.wind # "obj" => item.speed = Absent /\ item.deg = Absent
    /\ item.rain # "obj" => item.rain_1h = Absent /\ item.rain_3h = Absent
    /\ item.snow # "obj" => item.snow_1h = Absent /\ item.snow_3h = Absent

NoWeather == [kind |-> "absent", ids |-> <<>>]
WeatherList(ids) == [kind |-> "list", ids |-> ids]

\* {"main": {"temp": 50, "humidity": 50, "pressure": 1013},
\*  "weather": [{"id": 800}]}
BaseItem ==
    [main |-> "obj", temp |-> Num(5000), temp_min |-> Absent, temp_max |-> Absent,
     humidity |-> Num(50), pressure |-> Num(1013),
     wind |-> "absent", speed |-> Absent, deg |-> Absent,
     rain |-> "absent", rain_1h |-> Absent, rain_3h |-> Absent,
     snow |-> "absent", snow_1h |-> Absent, snow_3h |-> Absent,
     weather |-> WeatherList(<<Num(800)>>),
     coord |-> "absent", pop |-> Absent]

\* items whose fields are all numbers in their physical range
NumericItems ==
    {item \in
       [main : {"obj"}, temp : Nums(Temperatures), temp_min : {Absent},
        temp_max : {Absent}, humidity : Nums(Humidities),
        pressure : Nums(Pressures),
        wind : {"absent", "obj"}, speed : {Absent} \cup Nums(Speeds),
        deg : {Absent} \cup Nums(Degrees),
        rain : {"absent", "obj"}, rain_1h : {Absent} \cup Nums(Volumes),
        rain_3h : {Absent},
        snow : {"absent", "obj"}, snow_1h : {Absent, Num(200)}, snow_3h : {Absent},
        weather : {WeatherList(<<Num(800)>>)},
        coord : {"absent"}, pop : {Absent}] :
       /\ WellFormed(item)
       /\ item.wind = "obj" => item.speed # Absent
       /\ item.snow = "obj" => item.snow_1h # Absent}

\* items with "main", "wind", "coord", "pop" or their fields missing, null or
\* of the wrong type
MistypedItems ==
    {item \in
       [main : {"absent", "None", "obj"}, temp : {Absent, None, Str, Num(5000)},
        temp_min : {Absent}, temp_max : {Absent},
        humidity : {Absent, None, Str, Num(50)},
        pressure : {Absent, Str, Num(1013)},
        wind : {"absent", "None", "obj"}, speed : {Absent, Str},
        deg : {Absent, None, Str},
        rain : {"absent"}, rain_1h : {Absent}, rain_3h : {Absent},
        snow : {"absent"}, snow_1h : {Absent}, snow_3h : {Absent},
        weather : {WeatherList(<<Num(800)>>)},
        coord : {"absent", "None"}, pop : {Absent, None}] : WellFormed(item)}

\* items with "weather", "rain" or "snow" missing, null, empty or mistyped
SparseItems ==
    {item \in
       {[BaseItem EXCEPT !.weather = v[1], !.rain = v[2], !.rain_1h = v[3],
                         !.rain_3h = v[4], !.snow = v[5], !.snow_3h = v[6]] :
           v \in {NoWeather, [kind |-> "None", ids |-> <<>>], WeatherList(<<>>),
                  WeatherList(<<Num(202), Num(500)>>),
                  WeatherList(<<Num(800), Str>>), WeatherList(<<Num(Inf)>>)}
                 \X {"absent", "None", "obj"} \X {Absent, Str}
                 \X {Absent, Num(200)} \X {"absent", "obj"}
                 \X {Absent, Num(200)}} : WellFormed(item)}

Items == NumericItems \cup MistypedItems \cup SparseItems

----------------------------------------------------------------------------
(* WeatherProcessor.process_item, one action per step *)

Init ==
    /\ pc = "start"
    /\ processor \in {"current", "forecast"}
    /\ data_item \in Items
    /\ weather_conditions = <<>>
    /\ weather_dto = NoneDto
    /\ dimensions = NoneDims
    /\ date_time_dims = FALSE
    /\ fact = NoneFact
    /\ returned = "pending"
    /\ raised = "none"
    /\ fn = "idle" /\ arg = 0 /\ ret = 0

\* Step 1: create_weather_conditions, add_weather_conditions
ProcessWeatherConditions ==
    /\ pc = "start"
    /\ LET conditions == create_weather_conditions(data_item)
       IN  IF conditions.exc # "none"
           THEN /\ pc' = "done" /\ raised' = conditions.exc
                /\ UNCHANGED <<weather_conditions, returned>>
           ELSE IF conditions.val = <<>>
           THEN /\ pc' = "done" /\ returned' = "None"
                /\ UNCHANGED <<weather_conditions, raised>>
           ELSE /\ pc' = "dto" /\ weather_conditions' = conditions.val
                /\ UNCHANGED <<returned, raised>>
    /\ UNCHANGED <<processor, data_item, weather_dto, dimensions, date_time_dims,
                   fact, fn, arg, ret>>

\* Step 2: create_weather_dto, add_weather_dto
CreateWeatherDto ==
    /\ pc = "dto"
    /\ LET dto == create_weather_dto(data_item)
       IN  IF dto.exc # "none"
           THEN /\ pc' = "done" /\ returned' = "None" /\ UNCHANGED weather_dto
           ELSE /\ pc' = "precipitation" /\ weather_dto' = dto.val
                /\ UNCHANGED returned
    /\ UNCHANGED <<processor, data_item, weather_conditions, dimensions,
                   date_time_dims, fact, raised, fn, arg, ret>>

\* Step 3: process_precipitation
ProcessPrecipitation ==
    /\ pc = "precipitation"
    /\ weather_dto' = process_precipitation(processor, data_item, weather_dto)
    /\ pc' = "dimensions"
    /\ UNCHANGED <<processor, data_item, weather_conditions, dimensions,
                   date_time_dims, fact, returned, raised, fn, arg, ret>>

\* Step 4: create_dimensions; an exception outside Caught leaves create_dimensions
\* and then process_item
CreateDimensions ==
    /\ pc = "dimensions"
    /\ LET dims == dto_to_dimensions(weather_dto)
       IN  IF dims.exc = "none"
           THEN /\ dimensions' = dims.val /\ date_time_dims' = TRUE
                /\ pc' = "fact" /\ UNCHANGED <<returned, raised>>
           ELSE IF dims.exc \in Caught
           THEN /\ pc' = "done" /\ returned' = "None"
                /\ UNCHANGED <<dimensions, date_time_dims, raised>>
           ELSE /\ pc' = "done" /\ raised' = dims.exc
                /\ UNCHANGED <<dimensions, date_time_dims, returned>>
    /\ UNCHANGED <<processor, data_item, weather_conditions, weather_dto, fact,
                   fn, arg, ret>>

\* Step 5: create_fact_object and the return of the result dictionary
CreateFactObject ==
    /\ pc = "fact"
    /\ LET fact_object == create_fact_object(processor, data_item, 1,
                              weather_conditions, dimensions, date_time_dims)
       IN  /\ fact' = fact_object
           /\ returned' = IF fact_object.kind = "None" THEN "None" ELSE "result"
    /\ pc' = "done"
    /\ UNCHANGED <<processor, data_item, weather_conditions, weather_dto,
                   dimensions, date_time_dims, raised, fn, arg, ret>>

Next ==
    \/ ProcessWeatherConditions
    \/ CreateWeatherDto
    \/ ProcessPrecipitation
    \/ CreateDimensions
    \/ CreateFactObject

Spec == Init /\ [][Next]_vars

----------------------------------------------------------------------------
(* The classification functions and the dimension constructors applied on   *)
(* their own, to every input of a bounded range                             *)

MaxTempC == 40          \* temperatures -40.0 .. 40.0 in steps of half a degree
MaxHumidity == 100      \* humidity 0 .. 100 percent
MinPressure == 900      \* pressure 900 .. 1100 hPa
MaxPressure == 1100
MaxSpeed == 400         \* wind speed 0.0 .. 40.0 m/s in steps of 0.1
MaxCode == 1000         \* condition codes 0 .. 1000
MaxVolume1h == 34       \* 1h volume 0.0 .. 17.0 mm in steps of 0.5
MaxVolume3h == 94       \* 3h volume 0.0 .. 47.0 mm in steps of 0.5
MaxIntensityVolume == 150   \* volume 0.0 .. 75.0 mm in steps of 0.5

TempInputs == {50 * k : k \in (-2 * MaxTempC) .. (2 * MaxTempC)}
Units == {"C", "F", "K"}
HumidityInputs == 0 .. MaxHumidity
PressureInputs == MinPressure .. MaxPressure
SpeedInputs == 0 .. MaxSpeed
CodeInputs == 0 .. MaxCode
Volume1hInputs == {None} \cup {Num(5 * k) : k \in 0 .. MaxVolume1h}
Volume3hInputs == {None} \cup {Num(5 * k) : k \in 0 .. MaxVolume3h}
IntensityInputs == {5 * k : k \in 0 .. MaxIntensityVolume}
PrecipitationTypes == {"rain", "snow", "sleet", "hail", "none"}

IdleItem ==
    /\ pc = "idle"
    /\ processor = "current"
    /\ data_item = BaseItem
    /\ weather_conditions = <<>>
    /\ weather_dto = NoneDto
    /\ dimensions = NoneDims
    /\ date_time_dims = FALSE
    /\ fact = NoneFact
    /\ returned = "pending"
    /\ raised = "none"

InitClassify == IdleItem /\ fn = "idle" /\ arg = 0 /\ ret = 0

CallComfortLevel ==
    /\ fn = "idle"
    /\ \E t \in TempInputs, unit \in Units :
          /\ fn' = "comfort_level" /\ arg' = <<t, unit>>
          /\ ret' = comfort_level(t, unit)
    /\ UNCHANGED item_vars

CallTemperatureCategory ==
    /\ fn = "idle"
    /\ \E t \in TempInputs, unit \in Units :
          /\ fn' = "temperature_category" /\ arg' = <<t, unit>>
          /\ ret' = temperature_category(t, unit)
    /\ UNCHANGED item_vars

CallHumidityCategory ==
    /\ fn = "idle"
    /\ \E h \in HumidityInputs :
          /\ fn' = "humidity_category" /\ arg' = h
          /\ ret' = humidity_category(h)
    /\ UNCHANGED item_vars

CallIntensityCategory ==
    /\ fn = "idle"
    /\ \E v \in IntensityInputs :
          /\ fn' = "intensity_category" /\ arg' = v
          /\ ret' = intensity_category(v)
    /\ UNCHANGED item_vars

CallWindForceCat ==
    /\ fn = "idle"
    /\ \E s \in SpeedInputs :
          /\ fn' = "wind_force_cat" /\ arg' = s
          /\ ret' = wind_force_cat(s)
    /\ UNCHANGED item_vars

\* DimensionFactory.create_pressure_dimension(pressure)
CallCreatePressureDimension ==
    /\ fn = "idle"
    /\ \E p \in PressureInputs :
          /\ fn' = "create_pressure_dimension" /\ arg' = p
          /\ ret' = create_pressure_dimension(Num(p), NoneStr, FALSE, FALSE)
    /\ UNCHANGED item_vars

\* DimWeatherCondition(condition_id = code)
CallDimWeatherCondition ==
    /\ fn = "idle"
    /\ \E code \in CodeInputs :
          /\ fn' = "DimWeatherCondition" /\ arg' = code
          /\ ret' = DimWeatherCondition_post_init(
                        DimWeatherCondition(code, FALSE, FALSE))
    /\ UNCHANGED item_vars

\* DimensionFactory.create_precipitation_dimension(type, volume_1h, volume_3h)
CallCreatePrecipitationDimension ==
    /\ fn = "idle"
    /\ \E type \in PrecipitationTypes, v1 \in Volume1hInputs, v3 \in Volume3hInputs :
          /\ fn' = "create_precipitation_dimension" /\ arg' = <<type, v1, v3>>
          /\ ret' = create_precipitation_dimension(type, v1, v3, NoneStr, NoneStr,
                                                   NoneStr)
    /\ UNCHANGED item_vars

Return ==
    /\ fn # "idle"
    /\ fn' = "idle" /\ arg' = 0 /\ ret' = 0
    /\ UNCHANGED item_vars

NextClassify ==
    \/ CallComfortLevel
    \/ CallTemperatureCategory
    \/ CallHumidityCategory
    \/ CallIntensityCategory
    \/ CallWindForceCat
    \/ CallCreatePressureDimension
    \/ CallDimWeatherCondition
    \/ CallCreatePrecipitationDimension
    \/ Return

SpecClassify == InitClassify /\ [][NextClassify]_vars

\* BeaufortCategory.beaufort_scale applied to two speeds s1 <= s2
CallBeaufortScale ==
    /\ fn = "idle"
    /\ \E s1 \in SpeedInputs : \E s2 \in s1 .. MaxSpeed :
          /\ fn' = "beaufort_scale" /\ arg' = <<s1, s2>>
          /\ ret' = <<beaufort_scale(s1), beaufort_scale(s2)>>
    /\ UNCHANGED item_vars

NextBeaufort == CallBeaufortScale \/ Return

SpecBeaufort == InitClassify /\ [][NextBeaufort]_vars

----------------------------------------------------------------------------
(* Construction of a dimension with derived fields given by the caller      *)

SuppliedPressures == {990, 1013, 1030}
SuppliedTemperatures == {5000, 8060}
SuppliedHumidities == {20, 65, 90}
SuppliedSpeeds == {0, 150}
SuppliedDegrees == {0, 180}
SuppliedCodes == {202, 800}

ConstructDimPressure ==
    /\ fn = "idle"
    /\ \E p \in SuppliedPressures, category \in {NoneStr, "Low"},
          is_normal_range \in BOOLEAN, storm_potential \in BOOLEAN :
          /\ fn' = "DimPressure"
          /\ arg' = <<p, category, is_normal_range, storm_potential>>
          /\ ret' = DimPressure_post_init(
                        DimPressure(0, Num(p), category, is_normal_range,
                                    storm_potential))
    /\ UNCHANGED item_vars

ConstructDimTemperature ==
    /\ fn = "idle"
    /\ \E t \in SuppliedTemperatures, comfort \in {NoneStr, "Cold"},
          category \in {NoneStr, "Hot"}, temp_range \in {Num(Inf), Num(300)} :
          /\ fn' = "DimTemperature"
          /\ arg' = <<t, comfort, category, temp_range>>
          /\ ret' = DimTemperature_post_init(
                        DimTemperature(0, t, Num(t - 500), Num(t + 500), comfort,
                                       category, temp_range))
    /\ UNCHANGED item_vars

ConstructDimHumidity ==
    /\ fn = "idle"
    /\ \E h \in SuppliedHumidities, category \in {NoneStr, "humid"},
          comfort_impact \in {NoneStr, "Optimal comfort range"},
          is_dew_point_risk \in BOOLEAN, mold_risk_level \in {NoneStr, "Low"} :
          /\ fn' = "DimHumidity"
          /\ arg' = <<h, category, comfort_impact, is_dew_point_risk,
                      mold_risk_level>>
          /\ ret' = DimHumidity_post_init(
                        DimHumidity(0, Num(h), category, comfort_impact,
                                    is_dew_point_risk, mold_risk_level))
    /\ UNCHANGED item_vars

ConstructDimPrecipitation ==
    /\ fn = "idle"
    /\ \E v1 \in {None, Num(0), Num(200)}, intensity \in {NoneStr, "light"},
          impact \in {NoneStr, "minimal"}, flooding \in {NoneStr, "low"} :
          /\ fn' = "DimPrecipitation"
          /\ arg' = <<v1, intensity, impact, flooding>>
          /\ ret' = DimPrecipitation_post_init(
                        DimPrecipitation(0, "rain", v1, None, intensity, impact,
                                         flooding))
    /\ UNCHANGED item_vars

ConstructDimWind ==
    /\ fn = "idle"
    /\ \E speed \in SuppliedSpeeds, degrees \in SuppliedDegrees,
          direction \in {NoneStr, "W"},
          scale \in {IntScale(-99), IntScale(3)},
          description \in {NoneStr, "Gentle Breeze"} :
          /\ fn' = "DimWind"
          /\ arg' = <<speed, degrees, direction, scale, description>>
          /\ ret' = DimWind_post_init(
                        [DimWind(0, speed, Num(degrees)) EXCEPT
                            !.direction_cardinal = direction,
                            !.beaufort_scale = scale,
                            !.beaufort_description = description])
    /\ UNCHANGED item_vars

ConstructDimWeatherCondition ==
    /\ fn = "idle"
    /\ \E code \in SuppliedCodes, is_extreme \in BOOLEAN :
          /\ fn' = "DimWeatherCondition_supplied"
          /\ arg' = <<code, is_extreme>>
          /\ ret' = DimWeatherCondition_post_init(
                        DimWeatherCondition(code, FALSE, is_extreme))
    /\ UNCHANGED item_vars

NextSupplied ==
    \/ ConstructDimPressure
    \/ ConstructDimTemperature
    \/ ConstructDimHumidity
    \/ ConstructDimPrecipitation
    \/ ConstructDimWind
    \/ ConstructDimWeatherCondition
    \/ Return

SpecSupplied == InitClassify /\ [][NextSupplied]_vars

----------------------------------------------------------------------------
(* fetch_weather_data.py.  A response of the network is [status, body]; the *)
(* body is what resp.json() gives: "empty" and "malformed" make it raise    *)
(* ValueError.  Status 0 stands for no response: requests.get raises the    *)
(* exception named in the body.                                             *)

MaxLocations == 2

LocationNames == {"Toronto__CA", "Paris__FR"}
RunStamps == {"20250101120000"}

Locations == UNION {[1 .. n -> LocationNames] : n \in 0 .. MaxLocations}

Response(status, body) == [status |-> status, body |-> body]
NetworkFailures == {Response(0, "Timeout"), Response(0, "ConnectionError")}
GeocodeResponses ==
    NetworkFailures \cup
    {Response(status, body) :
        status \in {200, 404},
        body \in {"empty", "malformed", "empty_list", "ok", "no_lat", "no_lon"}}
WeatherResponses ==
    NetworkFailures \cup
    {Response(status, body) :
        status \in {200, 404}, body \in {"empty", "malformed", "empty_object", "ok"}}

\* the exceptions get_lan_lon, get_current_weather and get_forcast catch;
\* urllib's HTTPError is never raised by requests
FetchCaught ==
    {"HTTPError", "IndexError", "ValueError", "TypeError", "AttributeError"}

\* the exception the calls of resp.json() and float() raise, "none" if none
RaisedBy(resp) ==
    IF resp \in NetworkFailures THEN resp.body
    ELSE IF resp.body \in {"empty", "malformed"} THEN "ValueError"
    ELSE IF resp.status = 200 /\ resp.body \in {"no_lat", "no_lon"} THEN "TypeError"
    ELSE "none"

\* get_lan_lon: lat and lon are "inf" or "finite"
get_lan_lon(resp) ==
    LET exc == RaisedBy(resp)
        lat == IF resp \notin NetworkFailures /\ resp.status = 200
                  /\ resp.body \in {"ok", "no_lon"}
               THEN "finite" ELSE "inf"
        lon == IF resp \notin NetworkFailures /\ resp.status = 200
                  /\ resp.body = "ok"
               THEN "finite" ELSE "inf"
    IN  [exc |-> IF exc \in FetchCaught THEN "none" ELSE exc,
         lat |-> lat, lon |-> lon]

SnapshotFile(type, location, stamp) ==
    [type |-> type, location |-> location, stamp |-> stamp]

\* get_current_weather and get_forcast: the files written
get_weather(type, location, stamp, resp) ==
    LET exc == RaisedBy(resp)
    IN  [exc |-> IF exc \in FetchCaught THEN "none" ELSE exc,
         files |-> IF exc = "none" /\ resp.status = 200 /\ resp.body = "ok"
                   THEN {SnapshotFile(type, location, stamp)} ELSE {}]

get_current_weather(location, stamp, resp) ==
    get_weather("current_weather", location, stamp, resp)

get_forcast(location, stamp, resp) ==
    get_weather("forecast", location, stamp, resp)

MainResult(exc, requests, coords, files) ==
    [raised |-> exc, requests |-> requests, coords |-> coords, files |-> files]

\* main: the requests issued, the coordinates get_lan_lon returned, the files
\* written, and the exception that leaves main
main(api_key, locations, stamp, geo, cur, frc) ==
    IF ~api_key \/ locations = <<>>
    THEN MainResult("none", <<>>, <<"inf", "inf">>, {})
    ELSE LET selected_location == locations[1]
             c == get_lan_lon(geo)
             current == get_current_weather(selected_location, stamp, cur)
             forecast == get_forcast(selected_location, stamp, frc)
         IN  IF c.exc # "none"
             THEN MainResult(c.exc, <<"geo">>, <<"inf", "inf">>, {})
             ELSE IF c.lat = "inf" \/ c.lon = "inf"
             THEN MainResult("none", <<"geo">>, <<c.lat, c.lon>>, {})
             ELSE IF current.exc # "none"
             THEN MainResult(current.exc, <<"geo", "current_weather">>,
                             <<c.lat, c.lon>>, {})
             ELSE MainResult(forecast.exc,
                             <<"geo", "current_weather", "forecast">>,
                             <<c.lat, c.lon>>,
                             current.files \cup forecast.files)

CallMain ==
    /\ fn = "idle"
    /\ \E api_key \in BOOLEAN, locations \in Locations, stamp \in RunStamps,
          geo \in GeocodeResponses, cur \in WeatherResponses,
          frc \in WeatherResponses :
          /\ fn' = "main"
          /\ arg' = [api_key |-> api_key, locations |-> locations,
                     stamp |-> stamp, geo |-> geo, cur |-> cur, frc |-> frc]
          /\ ret' = main(api_key, locations, stamp, geo, cur, frc)
    /\ UNCHANGED item_vars

NextFetch ==
    \/ CallMain
    \/ Return

SpecFetch == InitClassify /\ [][NextFetch]_vars

----------------------------------------------------------------------------
(* find_and_load_file.  The directory listing is a sequence of the matching *)
(* snapshot files in the order Path.glob returns them; a file has the       *)
(* timestamp of its name and a content.                                     *)

MaxStamp == 3

FileContents == {"json", "malformed", "unreadable"}
StoredFile(stamp, content) == [stamp |-> stamp, content |-> content]

\* every order of every set of files with distinct timestamps
Listings ==
    UNION {{l \in [1 .. n -> {StoredFile(t, c) : t \in 1 .. MaxStamp,
                                                 c \in FileContents}] :
               \A i, j \in 1 .. n : i # j => l[i].stamp # l[j].stamp} :
           n \in 0 .. MaxStamp}

NoFile == StoredFile(0, "None")

\* find_and_load_file: the file whose data it returns, NoFile for (None, None)
find_and_load_file(files) ==
    IF files = <<>> THEN NoFile
    ELSE LET filename == files[1]
         IN  IF filename.content = "json" THEN filename ELSE NoFile

CallFindAndLoadFile ==
    /\ fn = "idle"
    /\ \E files \in Listings :
          /\ fn' = "find_and_load_file"
          /\ arg' = files
          /\ ret' = find_and_load_file(files)
    /\ UNCHANGED item_vars

NextFiles ==
    \/ CallFindAndLoadFile
    \/ Return

SpecFiles == InitClassify /\ [][NextFiles]_vars

----------------------------------------------------------------------------
(* Construction of a wind dimension from a speed, and from degrees          *)

DegreesSpan == 720

DegreesInputs == (0 - DegreesSpan) .. DegreesSpan

\* DimensionFactory.create_wind_dimension(speed, 0) and the _beaufort_scale
\* property of the result
CallCreateWindDimensionSpeed ==
    /\ fn = "idle"
    /\ \E speed \in SpeedInputs :
          LET wind == create_wind_dimension(speed, Num(0))
          IN  /\ fn' = "create_wind_dimension(speed)"
              /\ arg' = speed
              /\ ret' = <<wind, IF wind.exc = "none"
                                THEN DimWind_beaufort_scale(wind.val)
                                ELSE Raise(wind.exc, 0)>>
    /\ UNCHANGED item_vars

\* create_wind_dimension(0, d) and create_wind_dimension(0, d + 360)
CallCreateWindDimensionDegrees ==
    /\ fn = "idle"
    /\ \E d \in DegreesInputs :
          /\ fn' = "create_wind_dimension(degrees)"
          /\ arg' = d
          /\ ret' = <<create_wind_dimension(0, Num(d)),
                      create_wind_dimension(0, Num(d + 360))>>
    /\ UNCHANGED item_vars

NextWind ==
    \/ CallCreateWindDimensionSpeed
    \/ CallCreateWindDimensionDegrees
    \/ Return

SpecWind == InitClassify /\ [][NextWind]_vars

----------------------------------------------------------------------------
(* Construction of a temperature dimension from a temperature, a minimum    *)
(* and a maximum, each of the two None, the infinity default or a number    *)

MaxRangeStep == 8

RangeTemperatures == {5000, 8060, 9500}
RangeLimits == {None, Num(Inf)} \cup {Num(1000 * k) : k \in 0 .. MaxRangeStep}

CallCreateTemperatureDimension ==
    /\ fn = "idle"
    /\ \E t \in RangeTemperatures, temp_min \in RangeLimits, temp_max \in RangeLimits :
          /\ fn' = "create_temperature_dimension"
          /\ arg' = <<t, temp_min, temp_max>>
          /\ ret' = create_temperature_dimension(t, temp_min, temp_max, NoneStr,
                                                 NoneStr, Num(Inf))
    /\ UNCHANGED item_vars

NextTemperature ==
    \/ CallCreateTemperatureDimension
    \/ Return

SpecTemperature == InitClassify /\ [][NextTemperature]_vars

-----------------------------------------------------------------------------
(* ForecastProcessor.process: the loop over the forecast list *)

MaxForecastItems == 3

\* process_item as one call: the five steps of the pipeline on one item.
\* Each step's result is bound once, as a local variable of the code is.
\* Steps 4 and 5: create_dimensions and create_fact_object
process_item_dimensions(proc, item, item_id, conditions, dto) ==
    CHOOSE outcome \in
        {IF dims.exc = "none"
         THEN Ok(create_fact_object(proc, item, item_id, conditions, dims.val, TRUE))
         ELSE IF dims.exc \in Caught THEN Ok(NoneFact)
         ELSE Raise(dims.exc, NoneFact) : dims \in {dto_to_dimensions(dto)}} : TRUE

\* Step 3: process_precipitation
process_item_precipitation(proc, item, item_id, conditions, dto) ==
    CHOOSE outcome \in
        {process_item_dimensions(proc, item, item_id, conditions, with_precipitation) :
            with_precipitation \in {process_precipitation(proc, item, dto)}} : TRUE

\* Step 2: create_weather_dto
process_item_dto(proc, item, item_id, conditions) ==
    CHOOSE outcome \in
        {IF dto.exc # "none" THEN Ok(NoneFact)
         ELSE process_item_precipitation(proc, item, item_id, conditions, dto.val) :
            dto \in {create_weather_dto(item)}} : TRUE

\* Step 1: create_weather_conditions
process_item(proc, item, item_id) ==
    CHOOSE outcome \in
        {IF conditions.exc # "none" THEN Raise(conditions.exc, NoneFact)
         ELSE IF conditions.val = <<>> THEN Ok(NoneFact)
         ELSE process_item_dto(proc, item, item_id, conditions.val) :
            conditions \in {create_weather_conditions(item)}} : TRUE

\* a forecast item that succeeds, one with "main": null, one with "pop": null
\* and one of 300 degrees Fahrenheit
ForecastItems ==
    {BaseItem,
     [BaseItem EXCEPT !.main = "None", !.temp = Absent, !.humidity = Absent,
                      !.pressure = Absent],
     [BaseItem EXCEPT !.pop = None],
     [BaseItem EXCEPT !.temp = Num(30000)]}

\* the forecast lists of up to n items
ForecastLists(n) == UNION {[1 .. len -> ForecastItems] : len \in 0 .. n}

\* what find_and_load_file gives: no file, or the JSON with its "city" and "list"
ForecastData ==
    [file : {"missing", "found"}, city : {"None", "obj"},
     list : ForecastLists(MaxForecastItems)]

Running(at, idx, results) ==
    [at |-> at, idx |-> idx, forecast_results |-> results, exc |-> "none",
     val |-> "pending"]

Finished(state, exc, val) == [state EXCEPT !.at = "done", !.exc = exc, !.val = val]

CallProcess ==
    /\ fn = "idle"
    /\ \E data \in ForecastData :
           /\ fn' = "process" /\ arg' = data
           /\ ret' = Running("load", 0, <<>>)
    /\ UNCHANGED item_vars

\* Steps 1 to 3: the file, the city object and the forecast list
LoadForecast ==
    /\ fn = "process" /\ ret.at = "load"
    /\ ret' = IF arg.file = "missing" \/ arg.city = "None" \/ arg.list = <<>>
              THEN Finished(ret, "none", "None")
              ELSE [ret EXCEPT !.at = "loop"]
    /\ UNCHANGED <<fn, arg>>
    /\ UNCHANGED item_vars

\* Step 4: one turn of the loop over enumerate(forecast_list)
ProcessForecastItem ==
    /\ fn = "process" /\ ret.at = "loop" /\ ret.idx < Len(arg.list)
    /\ \E result \in {process_item("forecast", arg.list[ret.idx + 1], ret.idx + 1)} :
           ret' = IF result.exc # "none"
                  THEN Finished(ret, result.exc, "raised")
                  ELSE [ret EXCEPT !.idx = @ + 1,
                                   !.forecast_results =
                                       IF result.val.kind = "None" THEN @
                                       ELSE Append(@, result.val)]
    /\ UNCHANGED <<fn, arg>>
    /\ UNCHANGED item_vars

\* Step 5: None when no item gave a result, else the list
FinishProcess ==
    /\ fn = "process" /\ ret.at = "loop" /\ ret.idx = Len(arg.list)
    /\ ret' = Finished(ret, "none",
                       IF ret.forecast_results = <<>> THEN "None" ELSE "list")
    /\ UNCHANGED <<fn, arg>>
    /\ UNCHANGED item_vars

ReturnProcess ==
    /\ fn = "process" /\ ret.at = "done"
    /\ fn' = "idle" /\ arg' = 0 /\ ret' = 0
    /\ UNCHANGED item_vars

NextForecast ==
    \/ CallProcess
    \/ LoadForecast
    \/ ProcessForecastItem
    \/ FinishProcess
    \/ ReturnProcess

SpecForecast == InitClassify /\ [][NextForecast]_vars

-----------------------------------------------------------------------------
(* DimDate and DimTime of datasets/shared.py: from_dict and from_dict_stat *)

PyStr(s) == [kind |-> "str", val |-> s]
PyBool(b) == [kind |-> "bool", val |-> b]
PyDate(iso) == [kind |-> "date", val |-> iso]
PyTime(iso) == [kind |-> "time", val |-> iso]
NoKey == [kind |-> "absent", val |-> ""]

\* date.fromisoformat and time.fromisoformat: a string becomes a date or time
date_fromisoformat(s) == PyDate(s.val)
time_fromisoformat(s) == PyTime(s.val)

\* str.lower on the words the model draws
lower(s) ==
    CASE s = "True" -> "true"
      [] s = "T" -> "t"
      [] s = "No" -> "no"
      [] OTHER -> s

\* a string field becomes the bool of its membership in the true words
bool_of_str(v) ==
    IF v.kind = "str"
    THEN PyBool(IF lower(v.val) \in {"true", "t", "yes", "y", "1"}
                THEN "True" ELSE "False")
    ELSE v

\* the loop over is_weekend and is_holiday, written into the dict d
convert_bool_fields(d) ==
    [d EXCEPT !.is_weekend = bool_of_str(@), !.is_holiday = bool_of_str(@)]

\* DimDate(**data): is_holiday defaults to False
DimDate(d) ==
    [d EXCEPT !.is_holiday = IF @.kind = "absent" THEN PyBool("False") ELSE @]

\* Each call gives the instance and the caller's dict as it is after the call.
\* from_dict copies only when date_id is a string; else it writes into data
DimDate_from_dict(data) ==
    LET copied == data.date_id.kind = "str"
        with_date == IF copied
                     THEN [data EXCEPT !.date_id = date_fromisoformat(@)]
                     ELSE data
        converted == convert_bool_fields(with_date)
    IN  [exc |-> "none", val |-> DimDate(converted),
         data |-> IF copied THEN data ELSE converted]

\* from_dict_stat works on data_copy throughout
DimDate_from_dict_stat(data) ==
    LET with_date == IF data.date_id.kind = "str"
                     THEN [data EXCEPT !.date_id = date_fromisoformat(@)]
                     ELSE data
    IN  [exc |-> "none", val |-> DimDate(convert_bool_fields(with_date)),
         data |-> data]

DimTime_from_dict(data) ==
    [exc |-> "none",
     val |-> IF data.time_id.kind = "str"
             THEN [data EXCEPT !.time_id = time_fromisoformat(@)]
             ELSE data,
     data |-> data]

DimTime_from_dict_stat(data) ==
    [exc |-> "none",
     val |-> IF data.time_id.kind = "str"
             THEN [data EXCEPT !.time_id = time_fromisoformat(@)]
             ELSE data,
     data |-> data]

BoolWords == {"True", "T", "yes", "1", "No", "0"}
BoolValues == {PyStr(w) : w \in BoolWords} \cup {PyBool("True"), PyBool("False")}

DateDicts ==
    [date_id : {PyStr("2024-01-15"), PyDate("2024-01-15")},
     day : {15},
     is_weekend : BoolValues,
     is_holiday : {NoKey} \cup BoolValues]

TimeDicts ==
    [time_id : {PyStr("10:30:00"), PyTime("10:30:00")}, hour : {10}, minute : {30}]

CallDimDateFromDict ==
    /\ fn = "idle"
    /\ \E data \in DateDicts :
           /\ fn' = "DimDate.from_dict" /\ arg' = data
           /\ ret' = DimDate_from_dict(data)
    /\ UNCHANGED item_vars

CallDimDateFromDictStat ==
    /\ fn = "idle"
    /\ \E data \in DateDicts :
           /\ fn' = "DimDate.from_dict_stat" /\ arg' = data
           /\ ret' = DimDate_from_dict_stat(data)
    /\ UNCHANGED item_vars

CallDimTimeFromDict ==
    /\ fn = "idle"
    /\ \E data \in TimeDicts :
           /\ fn' = "DimTime.from_dict" /\ arg' = data
           /\ ret' = DimTime_from_dict(data)
    /\ UNCHANGED item_vars

CallDimTimeFromDictStat ==
    /\ fn = "idle"
    /\ \E data \in TimeDicts :
           /\ fn' = "DimTime.from_dict_stat" /\ arg' = data
           /\ ret' = DimTime_from_dict_stat(data)
    /\ UNCHANGED item_vars

NextFromDict ==
    \/ CallDimDateFromDict
    \/ CallDimDateFromDictStat
    \/ CallDimTimeFromDict
    \/ CallDimTimeFromDictStat
    \/ Return

SpecFromDict == InitClassify /\ [][NextFromDict]_vars

-----------------------------------------------------------------------------
(* FactCurrentWeather and FactForecast: from_dict and from_dict_stat *)

\* the fields the two dataclasses declare
FactFields(cls) ==
    IF cls = "FactCurrentWeather"
    THEN {"weather_id", "city_id", "condition_ids", "wind_id", "temperature_id",
          "pressure_id", "humidity_id", "precipitation_id", "date_id", "time_id",
          "calculation_time", "cloudiness", "visibility", "latitude", "longitude",
          "created_at", "response_code", "base_param", "source_system"}
    ELSE {"forecast_item_id", "forecast_id", "city_id", "condition_ids", "wind_id",
          "temperature_id", "pressure_id", "humidity_id", "precipitation_id",
          "date_id", "time_id", "forecast_time", "cloudiness", "visibility",
          "probability_of_precipitation", "created_at", "source_system"}

\* int_fields of from_dict and from_dict_stat
int_fields(cls) ==
    IF cls = "FactCurrentWeather"
    THEN {"weather_id", "city_id", "condition_id", "wind_id", "temperature_id",
          "pressure_id", "humidity_id", "precipitation_id", "cloudiness",
          "visibility"}
    ELSE {"forecast_item_id", "forecast_id", "city_id", "condition_id", "wind_id",
          "temperature_id", "pressure_id", "humidity_id", "precipitation_id",
          "cloudiness", "visibility"}

\* the keys of the dicts the model draws that are present in data
PresentKeys(data) ==
    {k \in {"city_id", "cloudiness", "source_system", "base_param", "created_at"} :
        data[k].kind # "absent"}

\* the keys of processed_data: every int field, and the other keys when present
processed_keys(cls, data) ==
    int_fields(cls) \cup
        (PresentKeys(data) \cap {"source_system", "base_param", "created_at"})

\* data.get(field, 0)
get_or_zero(v) == IF v.kind = "absent" THEN Num(0) ELSE v

\* datetime.fromisoformat raises ValueError on a string that is no ISO date;
\* then cls(**processed_data) raises TypeError on a key that is no field
fact_from_dict(cls, data) ==
    IF data.created_at = PyStr("nonsense") THEN Raise("ValueError", None)
    ELSE IF processed_keys(cls, data) \ FactFields(cls) # {}
    THEN Raise("TypeError", None)
    ELSE Ok([cls |-> cls, city_id |-> get_or_zero(data.city_id),
             cloudiness |-> get_or_zero(data.cloudiness),
             source_system |-> data.source_system])

FactCurrentWeather_from_dict(data) == fact_from_dict("FactCurrentWeather", data)
FactCurrentWeather_from_dict_stat(data) == fact_from_dict("FactCurrentWeather", data)
FactForecast_from_dict(data) == fact_from_dict("FactForecast", data)
FactForecast_from_dict_stat(data) == fact_from_dict("FactForecast", data)

FactDicts ==
    [city_id : {Absent, Num(7)}, cloudiness : {Absent, Num(40)},
     source_system : {NoKey, PyStr("api")}, base_param : {NoKey, PyStr("stations")},
     created_at : {NoKey, PyStr("2024-01-15T10:30:00"), PyStr("nonsense")}]

CallFactCurrentWeatherFromDict ==
    /\ fn = "idle"
    /\ \E data \in FactDicts :
           /\ fn' = "FactCurrentWeather.from_dict" /\ arg' = data
           /\ ret' = FactCurrentWeather_from_dict(data)
    /\ UNCHANGED item_vars

CallFactCurrentWeatherFromDictStat ==
    /\ fn = "idle"
    /\ \E data \in FactDicts :
           /\ fn' = "FactCurrentWeather.from_dict_stat" /\ arg' = data
           /\ ret' = FactCurrentWeather_from_dict_stat(data)
    /\ UNCHANGED item_vars

CallFactForecastFromDict ==
    /\ fn = "idle"
    /\ \E data \in FactDicts :
           /\ fn' = "FactForecast.from_dict" /\ arg' = data
           /\ ret' = FactForecast_from_dict(data)
    /\ UNCHANGED item_vars

CallFactForecastFromDictStat ==
    /\ fn = "idle"
    /\ \E data \in FactDicts :
           /\ fn' = "FactForecast.from_dict_stat" /\ arg' = data
           /\ ret' = FactForecast_from_dict_stat(data)
    /\ UNCHANGED item_vars

NextFacts ==
    \/ CallFactCurrentWeatherFromDict
    \/ CallFactCurrentWeatherFromDictStat
    \/ CallFactForecastFromDict
    \/ CallFactForecastFromDictStat
    \/ Return

SpecFacts == InitClassify /\ [][NextFacts]_vars

-----------------------------------------------------------------------------
(* DimensionFactory.create_humidity_dimension with no derived field supplied *)

CallCreateHumidityDimension ==
    /\ fn = "idle"
    /\ \E h \in 0..MaxHumidity :
          /\ fn' = "create_humidity_dimension" /\ arg' = h
          /\ ret' = create_humidity_dimension(Num(h), NoneStr, NoneStr, FALSE, NoneStr)
    /\ UNCHANGED item_vars

NextHumidity ==
    \/ CallCreateHumidityDimension
    \/ Return

SpecHumidity == InitClassify /\ [][NextHumidity]_vars

-----------------------------------------------------------------------------
(* The domain entities of src/domain/models.  A field whose default is     *)
(* str(), int(), Decimal() or bool() starts as "", 0 or "False": it is not *)
(* None, so __post_init__ leaves it.  An Optional[bool] is "True",         *)
(* "False" or NoneStr.                                                     *)

NoneScale == [kind |-> "None", num |-> 0, name |-> ""]

\* WindDirection.from_degrees: int((degrees + 11.25) % 360 / 22.5)
WindDirection_from_degrees(degrees) ==
    ListIndex(WindDirections, ((4 * degrees + 45) % 1440) \div 90, "")

BeaufortCategory_boundaries ==
    <<5, 15, 33, 55, 79, 107, 138, 171, 207, 244, 284, 326, Inf>>

BeaufortCategory_from_speed(speed) ==
    ListIndex(BeaufortNames, bisect_right(BeaufortCategory_boundaries, speed), "")

BeaufortCategory_scale_number(speed) ==
    bisect_right(BeaufortCategory_boundaries, speed)

\* Wind(speed=..., degrees=...) before __post_init__
Wind(speed, degrees) ==
    [speed |-> speed, degrees |-> degrees, direction_cardinal |-> NoneStr,
     beaufort_scale |-> IntScale(0), beaufort_description |-> ""]

Wind_calculate_direction(self) ==
    LET d == WindDirection_from_degrees(self.degrees.val)
    IN  IF d.exc # "none" THEN Raise(d.exc, self)
        ELSE Ok([self EXCEPT !.direction_cardinal = d.val])

Wind_calculate_beaufort(self) ==
    LET category == BeaufortCategory_from_speed(self.speed)
    IN  IF category.exc # "none" THEN Raise(category.exc, self)
        ELSE Ok([self EXCEPT
                   !.beaufort_scale = IntScale(BeaufortCategory_scale_number(self.speed)),
                   !.beaufort_description = category.val])

Wind_post_init(self) ==
    LET s1 == IF self.direction_cardinal = NoneStr
              THEN Wind_calculate_direction(self) ELSE Ok(self)
    IN  IF s1.exc # "none" THEN s1
        ELSE IF s1.val.beaufort_scale = NoneScale
             THEN Wind_calculate_beaufort(s1.val) ELSE s1

\* the conversion of from_temperature: any unit but F and K counts as Celsius
domain_temp_celsius(temperature, unit) ==
    IF unit = "F" THEN fahrenheit_to_celsius(temperature)
    ELSE IF unit = "K" THEN kelvin_to_celsius(temperature)
    ELSE temperature * 9

ComfortLevel_from_temperature(temperature, unit) ==
    ListIndex(ComfortLevelNames,
              bisect_right(Celsius(<<-10, 0, 10, 18, 24, 29, 35>>),
                           domain_temp_celsius(temperature, unit)), "")

TemperatureCategory_from_temperature(temperature, unit) ==
    ListIndex(TemperatureCategoryNames,
              bisect_right(Celsius(<<-20, -10, 0, 10, 18, 24, 29, 35>>),
                           domain_temp_celsius(temperature, unit)), "")

\* Temperature(temperature=...): temp_min, temp_max and temp_range are
\* Decimal(), the unit is 'C'
Temperature(temperature) ==
    [temperature |-> temperature, temp_min |-> Num(0), temp_max |-> Num(0),
     comfort_level |-> NoneStr, temperature_category |-> NoneStr,
     temp_range |-> Num(0), unit |-> "C"]

Temperature_calculate_comfort_level(self) ==
    LET r == ComfortLevel_from_temperature(self.temperature, self.unit)
    IN  IF r.exc # "none" THEN Raise(r.exc, self)
        ELSE Ok([self EXCEPT !.comfort_level = r.val])

Temperature_calculate_temperature_category(self) ==
    LET r == TemperatureCategory_from_temperature(self.temperature, self.unit)
    IN  IF r.exc # "none" THEN Raise(r.exc, self)
        ELSE Ok([self EXCEPT !.temperature_category = r.val])

Temperature_calculate_temp_range(self) ==
    IF self.temp_min # None /\ self.temp_max # None
    THEN Ok([self EXCEPT !.temp_range = Num(self.temp_max.val - self.temp_min.val)])
    ELSE Ok(self)

Temperature_post_init(self) ==
    LET s1 == IF self.comfort_level = NoneStr
              THEN Temperature_calculate_comfort_level(self) ELSE Ok(self)
        s2 == IF s1.exc # "none" THEN s1
              ELSE IF s1.val.temperature_category = NoneStr
                   THEN Temperature_calculate_temperature_category(s1.val) ELSE s1
    IN  IF s2.exc # "none" THEN s2
        ELSE IF /\ s2.val.temp_range = None /\ s2.val.temp_min # None
                /\ s2.val.temp_max # None
             THEN Temperature_calculate_temp_range(s2.val) ELSE s2

\* Pressure(pressure=...): pressure_category is str(), the flags are bool()
Pressure(pressure) ==
    [pressure |-> pressure, pressure_category |-> "",
     is_normal_range |-> "False", storm_potential |-> "False"]

Pressure_calculate_pressure_category(self) ==
    LET category == ListIndex(PressureCategoryNames,
                              bisect_right(<<980, 1000, 1015, 1025, 1040>>,
                                           self.pressure), "")
    IN  IF category.exc # "none" THEN Raise(category.exc, self)
        ELSE Ok([self EXCEPT !.pressure_category = category.val])

Pressure_calculate_normal_range(self) ==
    Ok([self EXCEPT !.is_normal_range =
           IF 1000 <= self.pressure /\ self.pressure <= 1025
           THEN "True" ELSE "False"])

Pressure_calculate_storm_potential(self) ==
    Ok([self EXCEPT !.storm_potential =
           IF self.pressure < 995 THEN "True" ELSE "False"])

Pressure_post_init(self) ==
    LET s1 == IF self.pressure_category = NoneStr
              THEN Pressure_calculate_pressure_category(self) ELSE Ok(self)
        s2 == IF s1.exc # "none" THEN s1
              ELSE IF s1.val.is_normal_range = NoneStr
                   THEN Pressure_calculate_normal_range(s1.val) ELSE s1
    IN  IF s2.exc # "none" THEN s2
        ELSE IF s2.val.storm_potential = NoneStr
             THEN Pressure_calculate_storm_potential(s2.val) ELSE s2

HumidityCategory_from_humidity(humidity) ==
    ListIndex(HumidityCategoryNames, bisect_right(<<30, 50, 70, 100>>, humidity), "")

\* Humidity(humidity=...): only humidity_category defaults to None
Humidity(humidity) ==
    [humidity |-> humidity, humidity_category |-> NoneStr, comfort_impact |-> "",
     is_dew_point_risk |-> "False", mold_risk_level |-> ""]

Humidity_calculate_humidity_category(self) ==
    LET category == HumidityCategory_from_humidity(self.humidity)
    IN  IF category.exc # "none" THEN Raise(category.exc, self)
        ELSE Ok([self EXCEPT !.humidity_category = category.val])

Humidity_calculate_comfort_impact(self) ==
    Ok([self EXCEPT !.comfort_impact =
           IF self.humidity < 30 THEN "May cause dry skin and respiratory discomfort"
           ELSE IF self.humidity <= 50 THEN "Optimal comfort range"
           ELSE IF self.humidity <= 70 THEN "May feel sticky or muggy"
           ELSE "Uncomfortable, potential heat stress when warm"])

Humidity_calculate_dew_point_risk(self) ==
    Ok([self EXCEPT !.is_dew_point_risk =
           IF self.humidity > 85 THEN "True" ELSE "False"])

Humidity_calculate_mold_risk(self) ==
    Ok([self EXCEPT !.mold_risk_level =
           IF self.humidity < 60 THEN "Low"
           ELSE IF self.humidity <= 80 THEN "Moderate" ELSE "High"])

Humidity_post_init(self) ==
    LET s1 == IF self.humidity_category = NoneStr
              THEN Humidity_calculate_humidity_category(self) ELSE Ok(self)
        s2 == IF s1.exc # "none" THEN s1
              ELSE IF s1.val.comfort_impact = NoneStr
                   THEN Humidity_calculate_comfort_impact(s1.val) ELSE s1
        s3 == IF s2.exc # "none" THEN s2
              ELSE IF s2.val.is_dew_point_risk = NoneStr
                   THEN Humidity_calculate_dew_point_risk(s2.val) ELSE s2
    IN  IF s3.exc # "none" THEN s3
        ELSE IF s3.val.mold_risk_level = NoneStr
             THEN Humidity_calculate_mold_risk(s3.val) ELSE s3

IntensityCategory_from_volume(volume) ==
    ListIndex(IntensityCategoryNames,
              bisect_right(<<0, 100, 300, 500, 700, Inf>>, volume), "")

\* Precipitation(precipitation_type=..., volume_1h=..., volume_3h=...):
\* impact_level and flooding_risk are str()
Precipitation(precipitation_type, volume_1h, volume_3h) ==
    [precipitation_type |-> precipitation_type, volume_1h |-> volume_1h,
     volume_3h |-> volume_3h, intensity_category |-> NoneStr,
     impact_level |-> "", flooding_risk |-> ""]

\* NONE for the type NONE whatever the volumes are
Precipitation_calculate_intensity(self) ==
    IF self.precipitation_type = "none"
    THEN Ok([self EXCEPT !.intensity_category = "none"])
    ELSE LET r == IF self.volume_1h # None
                  THEN IntensityCategory_from_volume(self.volume_1h.val)
                  ELSE IF self.volume_3h # None
                  THEN IntensityCategory_from_volume(self.volume_3h.val)
                  ELSE Ok("none")
         IN  IF r.exc # "none" THEN Raise(r.exc, self)
             ELSE Ok([self EXCEPT !.intensity_category = r.val])

\* the tests of _calculate_impact are those of DimPrecipitation._impact_level
Precipitation_calculate_impact(self) ==
    Ok([self EXCEPT !.impact_level =
           impact_level(self.precipitation_type, self.volume_1h, self.volume_3h)])

\* the tests of _calculate_flooding_risk are those of _flooding_risk
Precipitation_calculate_flooding_risk(self) ==
    Ok([self EXCEPT !.flooding_risk =
           flooding_risk(self.precipitation_type, self.volume_1h, self.volume_3h)])

Precipitation_post_init(self) ==
    LET s1 == IF self.intensity_category = NoneStr
              THEN Precipitation_calculate_intensity(self) ELSE Ok(self)
        s2 == IF s1.exc # "none" THEN s1
              ELSE IF s1.val.impact_level = NoneStr
                   THEN Precipitation_calculate_impact(s1.val) ELSE s1
    IN  IF s2.exc # "none" THEN s2
        ELSE IF s2.val.flooding_risk = NoneStr
             THEN Precipitation_calculate_flooding_risk(s2.val) ELSE s2

\* WeatherCondition(condition_id=...): is_extreme is bool()
WeatherCondition(condition_id) == [condition_id |-> condition_id, is_extreme |-> FALSE]

WeatherCondition_determine_extreme_status(self) ==
    [self EXCEPT !.is_extreme =
        \E i \in DOMAIN extreme_ranges :
            /\ extreme_ranges[i][1] <= self.condition_id
            /\ self.condition_id <= extreme_ranges[i][2]]

WeatherCondition_post_init(self) ==
    IF ~self.is_extreme THEN WeatherCondition_determine_extreme_status(self)
    ELSE self

-----------------------------------------------------------------------------
(* A dataset dimension and a domain entity built from the same raw inputs *)

BothSpeeds == {0, 30, 100, 400}
BothDegrees == {10 * k : k \in 0 .. 35}
BothTemperatures == {-3000, 0, 2000, 5000, 8000, 9500}
BothHumidities == {0, 30, 50, 90, 100}
BothVolumes == {None, Num(0), Num(50), Num(200)}
BothCodes == {800, 202, 232, 500}

Both(dataset, domain) == [dataset |-> dataset, domain |-> domain]

BuildWind ==
    /\ fn = "idle"
    /\ \E speed \in BothSpeeds, degrees \in BothDegrees :
          /\ fn' = "Wind" /\ arg' = <<speed, degrees>>
          /\ ret' = Both(create_wind_dimension(speed, Num(degrees)),
                         Wind_post_init(Wind(speed, Num(degrees))))
    /\ UNCHANGED item_vars

BuildTemperature ==
    /\ fn = "idle"
    /\ \E t \in BothTemperatures :
          /\ fn' = "Temperature" /\ arg' = t
          /\ ret' = Both(create_temperature_dimension(t, None, None, NoneStr,
                                                      NoneStr, Num(Inf)),
                         Temperature_post_init(Temperature(t)))
    /\ UNCHANGED item_vars

BuildPressure ==
    /\ fn = "idle"
    /\ \E p \in Pressures :
          /\ fn' = "Pressure" /\ arg' = p
          /\ ret' = Both(create_pressure_dimension(Num(p), NoneStr, FALSE, FALSE),
                         Pressure_post_init(Pressure(p)))
    /\ UNCHANGED item_vars

BuildHumidity ==
    /\ fn = "idle"
    /\ \E h \in BothHumidities :
          /\ fn' = "Humidity" /\ arg' = h
          /\ ret' = Both(create_humidity_dimension(Num(h), NoneStr, NoneStr, FALSE,
                                                   NoneStr),
                         Humidity_post_init(Humidity(h)))
    /\ UNCHANGED item_vars

BuildPrecipitation ==
    /\ fn = "idle"
    /\ \E type \in PrecipitationTypes, v1 \in BothVolumes, v3 \in {None, Num(0)} :
          /\ fn' = "Precipitation" /\ arg' = <<type, v1, v3>>
          /\ ret' = Both(create_precipitation_dimension(type, v1, v3, NoneStr,
                                                        NoneStr, NoneStr),
                         Precipitation_post_init(Precipitation(type, v1, v3)))
    /\ UNCHANGED item_vars

BuildWeatherCondition ==
    /\ fn = "idle"
    /\ \E code \in BothCodes :
          /\ fn' = "WeatherCondition" /\ arg' = code
          /\ ret' = Both(Ok(DimWeatherCondition_post_init(
                                DimWeatherCondition(code, FALSE, FALSE))),
                         Ok(WeatherCondition_post_init(WeatherCondition(code))))
    /\ UNCHANGED item_vars

NextDomain ==
    \/ BuildWind
    \/ BuildTemperature
    \/ BuildPressure
    \/ BuildHumidity
    \/ BuildPrecipitation
    \/ BuildWeatherCondition
    \/ Return

SpecDomain == InitClassify /\ [][NextDomain]_vars

----------------------------------------------------------------------------
(* Properties of the classification functions (SpecClassify, SpecBeaufort)  *)

\* position of x in the sequence table, 0 when it is not in it
RECURSIVE PositionFrom(_, _, _)
PositionFrom(table, x, i) ==
    IF i > Len(table) THEN 0
    ELSE IF table[i] = x THEN i ELSE PositionFrom(table, x, i + 1)
Position(table, x) == PositionFrom(table, x, 1)

\* the result is the category just above the k-th boundary
UpperBucket(result, names, k) ==
    k > 0 => /\ result.exc = "none" /\ k + 1 <= Len(names)
             /\ result.val = names[k + 1]

BeaufortBoundaries == <<5, 15, 33, 55, 79, 107, 138, 171, 207, 244, 284, 326>>
ComfortBoundaries == <<-1000, 0, 1000, 1800, 2400, 2900, 3500>>
TemperatureBoundaries == <<-2000, -1000, 0, 1000, 1800, 2400, 2900, 3500>>
PressureBoundaries == <<980, 1000, 1015, 1025, 1040>>
HumidityBoundaries == <<30, 50, 70>>
IntensityBoundaries == <<0, 100, 300, 500, 700>>

\* C3: in each of the six boundary tables, a value equal to a boundary is
\* classified into the category just above that boundary, the highest
\* boundary of the table included (pressure 1000 gives "Normal Low").
C3_BoundaryIsUpperBucket ==
    /\ fn = "wind_force_cat" =>
           UpperBucket(ret, BeaufortNames, Position(BeaufortBoundaries, arg))
    /\ (fn = "comfort_level" /\ arg[2] = "C") =>
           UpperBucket(ret, ComfortLevelNames, Position(ComfortBoundaries, arg[1]))
    /\ (fn = "temperature_category" /\ arg[2] = "C") =>
           UpperBucket(ret, TemperatureCategoryNames,
                       Position(TemperatureBoundaries, arg[1]))
    /\ fn = "create_pressure_dimension" =>
           (Position(PressureBoundaries, arg) > 0 =>
               /\ ret.exc = "none"
               /\ ret.val.pressure_category =
                      PressureCategoryNames[Position(PressureBoundaries, arg) + 1])
    /\ fn = "humidity_category" =>
           UpperBucket(ret, HumidityCategoryNames, Position(HumidityBoundaries, arg))
    /\ fn = "intensity_category" =>
           UpperBucket(ret, IntensityCategoryNames,
                       Position(IntensityBoundaries, arg))

\* C4: comfort_level gives every Celsius temperature one of the 7 comfort
\* levels, and every temperature from the highest boundary (35) upwards is
\* VERY_HOT: the last category has no upper end.
C4_ComfortLevelTotal ==
    (fn = "comfort_level" /\ arg[2] = "C") =>
        /\ ret.exc = "none"
        /\ \E i \in DOMAIN ComfortLevelNames : ret.val = ComfortLevelNames[i]
        /\ arg[1] >= 3500 => ret.val = "Very Hot"

\* C5: humidity_category gives every humidity 0..100 its category: DRY below
\* 30, COMFORTABLE in 30..49, HUMID in 50..69, VERY_HUMID from 70 to 100.
C5_HumidityCategory ==
    fn = "humidity_category" =>
        /\ ret.exc = "none"
        /\ ret.val = IF arg < 30 THEN "dry"
                     ELSE IF arg < 50 THEN "comfortable"
                     ELSE IF arg < 70 THEN "humid"
                     ELSE "very_humid"

\* C6: a pressure dimension built from the pressure p alone has
\* is_normal_range = (1000 <= p <= 1025) and storm_potential = (p < 995).
C6_PressureFlags ==
    fn = "create_pressure_dimension" =>
        /\ ret.exc = "none"
        /\ ret.val.is_normal_range <=> (1000 <= arg /\ arg <= 1025)
        /\ ret.val.storm_potential <=> (arg < 995)

\* C8: the Beaufort scale number never decreases when the wind speed grows,
\* lies in 0..12, is 0 at speed 0 and 12 at speed 40.
C8_BeaufortMonotonic ==
    fn = "beaufort_scale" =>
        /\ ret[1].exc = "none" /\ ret[2].exc = "none"
        /\ ret[1].val \in 0 .. 12 /\ ret[2].val \in 0 .. 12
        /\ ret[1].val <= ret[2].val
        /\ arg[1] = 0 => ret[1].val = 0
        /\ arg[2] = 400 => ret[2].val = 12

\* two speeds on either side of a boundary, and the two ends of the range
C8_Witness ==
    /\ fn = "beaufort_scale"
    /\ arg = <<0, 400>>
    /\ ret[1].val = 0 /\ ret[2].val = 12

ExtremeCodes ==
    (202 .. 232) \cup (504 .. 531) \cup (602 .. 622) \cup (751 .. 781)
        \cup (900 .. 906) \cup (961 .. 962)

\* C9: a weather condition built from a code has is_extreme true exactly when
\* the code lies in 202-232, 504-531, 602-622, 751-781, 900-906 or 961-962.
C9_IsExtreme ==
    fn = "DimWeatherCondition" =>
        /\ ret.condition_id = arg
        /\ ret.is_extreme <=> (arg \in ExtremeCodes)

\* the upper edge of the first range
C9_Witness == fn = "DimWeatherCondition" /\ arg = 232 /\ ret.is_extreme

In1h(v, lo, hi) == v # None /\ lo <= v.val /\ v.val <= hi
In3h(v, lo, hi) == v # None /\ lo <= v.val /\ v.val <= hi

\* the impact level by first match in the order none, severe, significant,
\* moderate, minimal (volumes in 0.1 mm)
ExpectedImpact(type, v1, v3) ==
    CASE type = "none" \/ In1h(v1, 0, 0) \/ (v1 = None /\ In3h(v3, 0, 0)) -> "none"
      [] OTHER ->
         CASE type \in {"rain", "snow"}
                 /\ ((v1 # None /\ v1.val > 150) \/ (v3 # None /\ v3.val > 450))
                 -> "severe"
           [] OTHER ->
              CASE type \in {"rain", "snow", "sleet"}
                      /\ (In1h(v1, 75, 150) \/ In3h(v3, 225, 450)) -> "significant"
                [] OTHER ->
                   CASE In1h(v1, 25, 74) \/ In3h(v3, 75, 224) -> "moderate"
                     [] OTHER -> "minimal"

\* C10: the impact level of a precipitation dimension is decided by first
\* match in the order none, severe, significant, moderate, minimal with the
\* cutoffs 0, 15/45, 7.5/22.5 and 2.5/7.5 mm, for every type and volumes.
C10_ImpactLevel ==
    fn = "create_precipitation_dimension" =>
        /\ ret.exc = "none"
        /\ ret.val.impact_level = ExpectedImpact(arg[1], arg[2], arg[3])

\* rain whose 1h volume is significant and whose 3h volume is moderate: the
\* earlier test wins
C10_Witness ==
    /\ fn = "create_precipitation_dimension"
    /\ arg = <<"rain", Num(100), Num(100)>>
    /\ ret.val.impact_level = "significant"

----------------------------------------------------------------------------
(* Properties of the processing pipeline (Spec)                             *)

\* the item {"main": {"temp": 300, "humidity": 90}, "wind": {"speed": 15},
\* "rain": {"1h": 20}}, whatever its other keys
IsHotHumidStormItem(item) ==
    /\ item.main = "obj" /\ item.temp = Num(30000) /\ item.humidity = Num(90)
    /\ item.wind = "obj" /\ item.speed = Num(150)
    /\ item.rain = "obj" /\ item.rain_1h = Num(200)

\* C1: the current-weather processor turns the item with main.temp 300,
\* main.humidity 90, wind.speed 15 and rain.1h 20 into a result whose
\* temperature category is WARM, humidity category VERY_HUMID, Beaufort
\* category STRONG_BREEZE or NEAR_GALE, impact level "severe" and flooding
\* risk "high".
C1_HotHumidStormResult ==
    (pc = "done" /\ processor = "current" /\ IsHotHumidStormItem(data_item)) =>
        /\ raised = "none"
        /\ returned = "result"
        /\ dimensions.temperature.temperature_category = "Warm"
        /\ dimensions.humidity.humidity_category = "very_humid"
        /\ dimensions.wind.beaufort_scale.name \in {"Strong Breeze", "Near Gale"}
        /\ dimensions.precipitation.impact_level = "severe"
        /\ dimensions.precipitation.flooding_risk = "high"

IsVolume(v) == v = None \/ (v.kind = "num" /\ v.val >= 0)

\* a DTO whose fields are numbers inside their physical ranges
WellTypedInRange(dto) ==
    /\ dto.kind = "dto"
    /\ dto.temperature \in Int
    /\ dto.temp_min.kind = "num" /\ dto.temp_max.kind = "num"
    /\ dto.humidity.kind = "num" /\ dto.humidity.val \in 0 .. 100
    /\ dto.pressure.kind = "num" /\ dto.pressure.val \in 900 .. 1100
    /\ dto.wind_speed \in Nat
    /\ dto.wind_degrees.kind = "num" /\ dto.wind_degrees.val \in 0 .. 360
    /\ IsVolume(dto.precipitation_volume_1h)
    /\ IsVolume(dto.precipitation_volume_3h)

\* C2: dto_to_dimensions succeeds for every well-typed DTO inside the
\* physical ranges: once the dimensions step has run on such a DTO the five
\* dimensions exist and no exception has been raised.
C2_DimensionsBuilt ==
    (pc \in {"fact", "done"} /\ WellTypedInRange(weather_dto)) =>
        /\ raised = "none"
        /\ dimensions.kind = "dict"

\* C7: process_item ends by returning a result dictionary or None for every
\* item; no exception leaves it.
C7_NoExceptionEscapes ==
    pc = "done" => (raised = "none" /\ returned \in {"result", "None"})

\* the DTO has been through process_precipitation
PrecipitationProcessed ==
    weather_dto.kind = "dto" /\ pc \in {"dimensions", "fact", "done"}

\* the volume the processor keeps: 1h for current weather, 3h for forecast
KeptVolume == IF processor = "current" THEN weather_dto.precipitation_volume_1h
              ELSE weather_dto.precipitation_volume_3h

\* the number under the processor's volume key, 0 when missing or not a number
VolumeRead(v) == IF v.kind = "num" THEN v ELSE Num(0)

NoDerivedRisk ==
    dimensions.kind = "dict" =>
        /\ dimensions.precipitation.precipitation_type = "none"
        /\ dimensions.precipitation.intensity_category = "none"
        /\ dimensions.precipitation.impact_level = "none"
        /\ dimensions.precipitation.flooding_risk = "none"

RawFieldsPresent ==
    /\ data_item.main = "obj" /\ data_item.wind = "obj"
    /\ data_item.temp # Absent /\ data_item.humidity # Absent
    /\ data_item.pressure # Absent /\ data_item.speed # Absent

\* the four raw values of the dimensions are those of the document
RawValuesKept ==
    /\ Num(dimensions.temperature.temperature) = data_item.temp
    /\ dimensions.humidity.humidity = data_item.humidity
    /\ dimensions.pressure.pressure = data_item.pressure
    /\ Num(dimensions.wind.speed) = data_item.speed

\* C12 as stated: for every document in which main.temp, main.humidity,
\* main.pressure and wind.speed are present, the dimensions built from it
\* carry the document's raw temperature, humidity, pressure and wind speed.
C12_RawValuesOfPresentFields ==
    (dimensions.kind = "dict" /\ RawFieldsPresent) => RawValuesKept

\* C12 amended: for every document in which main.temp and wind.speed are
\* numbers and main.humidity and main.pressure are present, the dimensions
\* built from it carry the document's raw temperature, humidity, pressure
\* and wind speed unchanged.
C12_RoundTrip ==
    (/\ dimensions.kind = "dict" /\ RawFieldsPresent
     /\ data_item.temp.kind = "num" /\ data_item.speed.kind = "num") =>
        RawValuesKept

C12_Witness ==
    /\ dimensions.kind = "dict"
    /\ data_item.temp = Num(8060) /\ data_item.humidity = Num(90)
    /\ data_item.pressure = Num(994) /\ data_item.speed = Num(150)
    /\ dimensions.temperature.temperature = 8060
    /\ dimensions.humidity.humidity = Num(90)
    /\ dimensions.pressure.pressure = Num(994)
    /\ dimensions.wind.speed = 150

AbsentOrNumber(v) == v = Absent \/ v.kind = "num"

\* an item whose optional objects and fields are absent or well typed, with
\* at least one of them absent, and whose present temperature and humidity
\* are inside the comfort and humidity tables
SomeOptionalAbsent(item) ==
    /\ item.main \in {"absent", "obj"} /\ item.wind \in {"absent", "obj"}
    /\ item.rain \in {"absent", "obj"} /\ item.snow \in {"absent", "obj"}
    /\ item.weather.kind = "list"
    /\ item.coord = "absent" /\ item.pop = Absent
    /\ AbsentOrNumber(item.temp) /\ AbsentOrNumber(item.humidity)
    /\ AbsentOrNumber(item.pressure) /\ AbsentOrNumber(item.speed)
    /\ AbsentOrNumber(item.deg)
    /\ item.temp.kind = "num" => item.temp.val < 9500
    /\ item.humidity.kind = "num" => item.humidity.val < 100
    /\ Absent \in {item.temp, item.humidity, item.pressure, item.speed, item.deg}

\* C13: when optional objects or fields of the item are absent,
\* create_weather_dto uses the defaults (wind speed 0 and degrees 0,
\* temperature 273.15, pressure 1013, humidity 50) and the item is still
\* processed to a complete result.
C13_DefaultsGiveResult ==
    (pc = "done" /\ SomeOptionalAbsent(data_item)) =>
        /\ raised = "none"
        /\ returned = "result"
        /\ data_item.temp = Absent => weather_dto.temperature = 27315
        /\ data_item.pressure = Absent => weather_dto.pressure = Num(1013)
        /\ data_item.humidity = Absent => weather_dto.humidity = Num(50)
        /\ data_item.speed = Absent => weather_dto.wind_speed = 0
        /\ data_item.deg = Absent => weather_dto.wind_degrees = Num(0)

\* the finished field holds the value the caller gave, unless the caller gave
\* the value that stands for "not supplied"
Kept(supplied, unset, finished) == supplied # unset => finished = supplied

\* C14: the post-construction step of a dimension fills only the derived
\* fields the caller did not supply: every derived category, flag or range
\* given at construction is the value the finished object holds.
C14_SuppliedDerivedFieldsKept ==
    /\ (fn = "DimPressure" /\ ret.exc = "none") =>
           /\ Kept(arg[2], NoneStr, ret.val.pressure_category)
           /\ Kept(arg[3], FALSE, ret.val.is_normal_range)
           /\ Kept(arg[4], FALSE, ret.val.storm_potential)
    /\ (fn = "DimTemperature" /\ ret.exc = "none") =>
           /\ Kept(arg[2], NoneStr, ret.val.comfort_level)
           /\ Kept(arg[3], NoneStr, ret.val.temperature_category)
           /\ Kept(arg[4], Num(Inf), ret.val.temp_range)
    /\ (fn = "DimHumidity" /\ ret.exc = "none") =>
           /\ Kept(arg[2], NoneStr, ret.val.humidity_category)
           /\ Kept(arg[3], NoneStr, ret.val.comfort_impact)
           /\ Kept(arg[4], FALSE, ret.val.is_dew_point_risk)
           /\ Kept(arg[5], NoneStr, ret.val.mold_risk_level)
    /\ (fn = "DimPrecipitation" /\ ret.exc = "none") =>
           /\ Kept(arg[2], NoneStr, ret.val.intensity_category)
           /\ Kept(arg[3], NoneStr, ret.val.impact_level)
           /\ Kept(arg[4], NoneStr, ret.val.flooding_risk)
    /\ (fn = "DimWind" /\ ret.exc = "none") =>
           /\ Kept(arg[3], NoneStr, ret.val.direction_cardinal)
           /\ Kept(arg[4], IntScale(-99), ret.val.beaufort_scale)
           /\ Kept(arg[5], NoneStr, ret.val.beaufort_description)
    /\ fn = "DimWeatherCondition_supplied" =>
           Kept(arg[2], FALSE, ret.is_extreme)

IsOk(resp) == resp \notin NetworkFailures /\ resp.status = 200 /\ resp.body = "ok"

\* C15: one run of the fetch program writes, for every location of the
\* location file, a current-weather and a forecast snapshot file named with
\* the location and the run's timestamp, when the geocode succeeds and the
\* responses are 200.
C15_FilesForEveryLocation ==
    (/\ fn = "main" /\ arg.api_key
     /\ IsOk(arg.geo) /\ IsOk(arg.cur) /\ IsOk(arg.frc)) =>
        /\ ret.raised = "none"
        /\ \A i \in DOMAIN arg.locations :
              /\ SnapshotFile("current_weather", arg.locations[i], arg.stamp)
                     \in ret.files
              /\ SnapshotFile("forecast", arg.locations[i], arg.stamp)
                     \in ret.files

\* the number of entries of the request log that name the endpoint
Requested(endpoint) ==
    Cardinality({i \in DOMAIN ret.requests : ret.requests[i] = endpoint})

\* C16: a failed network call (non-200 status, empty or malformed body,
\* timeout, connection failure) is not retried and no exception leaves main;
\* after a failed geocode get_lan_lon has returned (inf, inf) and main issues
\* no weather request; a failed weather or forecast request writes no file; a
\* file is written only after finite coordinates and a 200 response with a
\* body.
C16_FailuresContained ==
    fn = "main" =>
        /\ ret.raised = "none"
        /\ \A e \in {"geo", "current_weather", "forecast"} : Requested(e) <= 1
        /\ ~IsOk(arg.geo) =>
               /\ ret.coords = <<"inf", "inf">>
               /\ Requested("current_weather") = 0 /\ Requested("forecast") = 0
        /\ ~IsOk(arg.cur) =>
               \A f \in ret.files : f.type # "current_weather"
        /\ ~IsOk(arg.frc) => \A f \in ret.files : f.type # "forecast"
        /\ ret.files # {} => (IsOk(arg.geo) /\ ret.coords = <<"finite", "finite">>)

\* the most recently written file of the listing
Latest(files) ==
    CHOOSE i \in DOMAIN files : \A j \in DOMAIN files : files[j].stamp <= files[i].stamp

\* C17: find_and_load_file loads the latest of the matching snapshot files,
\* whatever the order of the directory listing, and returns (None, None)
\* when there is no matching file or the file cannot be read or parsed.
C17_LoadsLatestFile ==
    fn = "find_and_load_file" =>
        IF arg = <<>> THEN ret = NoFile
        ELSE IF arg[Latest(arg)].content = "json" THEN ret = arg[Latest(arg)]
        ELSE ret = NoFile

\* the volume is present and above the cutoff (in 0.1 mm)
Above(v, cutoff) == v # None /\ v.val > cutoff

\* the flooding risk by type and volumes (volumes in 0.1 mm)
ExpectedFlooding(type, v1, v3) ==
    CASE type # "rain" -> "none"
      [] type = "rain" /\ (Above(v1, 100) \/ Above(v3, 300)) -> "high"
      [] type = "rain" /\ ~(Above(v1, 100) \/ Above(v3, 300))
           /\ (In1h(v1, 50, 100) \/ In3h(v3, 150, 300)) -> "moderate"
      [] OTHER -> "low"

\* C18: the flooding risk of a precipitation dimension is "none" for every
\* type other than rain; for rain it is "high" if the 1h volume is above 10
\* or the 3h volume above 30, else "moderate" if 5 <= 1h <= 10 or
\* 15 <= 3h <= 30, else "low", whichever of the volumes are absent.
C18_FloodingRisk ==
    fn = "create_precipitation_dimension" =>
        /\ ret.exc = "none"
        /\ ret.val.flooding_risk = ExpectedFlooding(arg[1], arg[2], arg[3])

\* snow heavy enough to be "high" for rain has no flooding risk
C18_Witness ==
    /\ fn = "create_precipitation_dimension"
    /\ arg = <<"snow", Num(150), Num(300)>>
    /\ ret.val.flooding_risk = "none"

\* the Beaufort number of a speed: the number of boundaries it has reached
BeaufortNumber(speed) ==
    Cardinality({i \in DOMAIN BeaufortBoundaries : BeaufortBoundaries[i] <= speed})

\* C19: a wind dimension built from a speed only holds in beaufort_scale the
\* integer Beaufort number (0..12) of the speed, which is also the value of
\* its _beaufort_scale property.
C19_BeaufortScaleIsNumber ==
    fn = "create_wind_dimension(speed)" =>
        /\ ret[1].exc = "none" /\ ret[2].exc = "none"
        /\ ret[2].val = BeaufortNumber(arg)
        /\ ret[1].val.beaufort_scale = IntScale(BeaufortNumber(arg))

Compass ==
    <<"N", "NNE", "NE", "ENE", "E", "ESE", "SE", "SSE",
      "S", "SSW", "SW", "WSW", "W", "WNW", "NW", "NNW">>

\* the sector k in 0..15 with 22.5 k <= (d + 11.25) mod 360 < 22.5 (k + 1),
\* in quarter degrees
InSector(d, k) ==
    /\ 90 * k <= (4 * d + 45) % 1440
    /\ (4 * d + 45) % 1440 < 90 * (k + 1)

\* C20: the cardinal direction of a wind dimension built from integer
\* degrees d is entry floor(((d + 11.25) mod 360) / 22.5) of the 16-point
\* compass; the entry exists for every d, negative or above 360, and d and
\* d + 360 give the same direction.
C20_DirectionCardinal ==
    fn = "create_wind_dimension(degrees)" =>
        /\ ret[1].exc = "none" /\ ret[2].exc = "none"
        /\ \E k \in 0 .. 15 :
              /\ InSector(arg, k)
              /\ ret[1].val.direction_cardinal = Compass[k + 1]
        /\ ret[2].val.direction_cardinal = ret[1].val.direction_cardinal

\* a negative angle just left of north-north-west's upper edge
C20_Witness ==
    /\ fn = "create_wind_dimension(degrees)"
    /\ arg = -12
    /\ ret[1].val.direction_cardinal = "NNW"
    /\ ret[2].val.direction_cardinal = "NNW"

IsFinite(v) == v # None /\ v # Num(Inf)

HasConditions == weather_conditions # <<>>
HasDto == weather_dto.kind = "dto"
HasDimensions == dimensions.kind = "dict" /\ date_time_dims
HasFact == fact.kind # "None"

\* C22: process_item runs its stages in the order weather conditions, DTO,
\* precipitation, dimensions, fact; once a stage fails no later stage runs
\* and None is returned; a result is returned only when the context holds a
\* DTO, the five dimensions, the date and time dimensions and a fact; the
\* precipitation fields of the DTO are set before the dimensions are built.
C22_StagesInOrder ==
    /\ HasDto => HasConditions
    /\ HasDimensions => (HasDto /\ pc \in {"fact", "done"})
    /\ HasFact => (HasDimensions /\ pc = "done")
    /\ HasDimensions =>
           /\ dimensions.precipitation.precipitation_type
                  = weather_dto.precipitation_type
           /\ dimensions.precipitation.volume_1h
                  = weather_dto.precipitation_volume_1h
           /\ dimensions.precipitation.volume_3h
                  = weather_dto.precipitation_volume_3h
    /\ returned = "result" => (HasDto /\ HasDimensions /\ HasFact)
    /\ pc = "done" =>
           /\ returned \in {"result", "None"}
           /\ returned = "None" <=> ~HasFact

\* C23: when ForecastProcessor.process ends, it has not raised; every item of
\* the list was processed; the results are those of exactly the items whose
\* process_item succeeded, in input order, each fact with its 1-based position
\* as forecast_item_id; and None is returned exactly when the file, the city or
\* the list is missing or empty or no item succeeded
ForecastEnded == fn = "process" /\ ret.at = "done"

LoopEntered == arg.file = "found" /\ arg.city = "obj" /\ arg.list # <<>>

Succeeded(list) ==
    {i \in 1..Len(list) :
        LET result == process_item("forecast", list[i], i)
        IN  result.exc = "none" /\ result.val.kind # "None"}

C23_ForecastResults ==
    ForecastEnded =>
        LET results == ret.forecast_results
        IN  /\ ret.exc = "none"
            /\ LoopEntered => ret.idx = Len(arg.list)
            /\ LoopEntered =>
                   /\ {results[k].item_id : k \in DOMAIN results} = Succeeded(arg.list)
                   /\ \A k \in DOMAIN results :
                          k > 1 => results[k - 1].item_id < results[k].item_id
            /\ ret.val = "None" <=> (~LoopEntered \/ Succeeded(arg.list) = {})

\* C24: DimDate.from_dict and DimTime.from_dict leave the dict they are given
\* as it was (also when date_id is already a date and is_weekend or is_holiday
\* is a string), and DimDate.from_dict returns what from_dict_stat returns
C24_FromDictKeepsInput ==
    /\ fn \in {"DimDate.from_dict", "DimTime.from_dict"} => ret.data = arg
    /\ fn = "DimDate.from_dict" => ret.val = DimDate_from_dict_stat(arg).val

\* C25: the four from_dict functions of the facts return an instance for every
\* dict, the empty one included: no exception, a missing integer field is 0
\* and a present field keeps its value
FactFromDictCalled ==
    fn \in {"FactCurrentWeather.from_dict", "FactCurrentWeather.from_dict_stat",
            "FactForecast.from_dict", "FactForecast.from_dict_stat"}

C25_FactFromAnyDict ==
    FactFromDictCalled =>
        /\ ret.exc = "none"
        /\ ret.val.city_id = (IF arg.city_id = Absent THEN Num(0) ELSE arg.city_id)
        /\ ret.val.cloudiness =
               (IF arg.cloudiness = Absent THEN Num(0) ELSE arg.cloudiness)
        /\ ret.val.source_system = arg.source_system

\* C26: create_weather_conditions never raises and never returns an empty
\* list: one condition per entry of the "weather" list, or the single default
\* condition 800 when the list is absent, null, empty or malformed; so the
\* pipeline never leaves at its first step; and is_extreme of every condition
\* is decided by its code
IntegerId(id) == id = Absent \/ (id.kind = "num" /\ id # Num(Inf))

ListOfEntries(weather) ==
    /\ weather.kind = "list" /\ weather.ids # <<>>
    /\ \A i \in DOMAIN weather.ids : IntegerId(weather.ids[i])

C26_ConditionsNeverEmpty ==
    pc # "start" =>
        /\ raised # "OverflowError"
        /\ weather_conditions # <<>>
        /\ IF ListOfEntries(data_item.weather)
           THEN /\ Len(weather_conditions) = Len(data_item.weather.ids)
                /\ \A i \in DOMAIN weather_conditions :
                       weather_conditions[i].condition_id =
                           Get(data_item.weather.ids[i], Num(800)).val
           ELSE /\ Len(weather_conditions) = 1
                /\ weather_conditions[1].condition_id = 800
        /\ \A i \in DOMAIN weather_conditions :
               weather_conditions[i].is_extreme =
                   (weather_conditions[i].condition_id \in ExtremeCodes)

\* C27: in every precipitation dimension the processors build, an impact level
\* "none" comes with a flooding risk "none" and the intensity category NONE
C27_NoImpactNoRisk ==
    (HasDimensions /\ dimensions.precipitation.impact_level = "none") =>
        /\ dimensions.precipitation.flooding_risk = "none"
        /\ dimensions.precipitation.intensity_category = "none"

\* C28: for a fixed precipitation type other than NONE and no 3h volume, a
\* larger 1h volume never gives a lower impact level, under the order
\* none < minimal < moderate < significant < severe
ImpactRank(level) ==
    CASE level = "none" -> 0
      [] level = "minimal" -> 1
      [] level = "moderate" -> 2
      [] level = "significant" -> 3
      [] level = "severe" -> 4

C28_ImpactMonotonic ==
    (/\ fn = "create_precipitation_dimension"
     /\ arg[1] # "none" /\ arg[2] # None /\ arg[3] = None) =>
        /\ ret.exc = "none"
        /\ \A smaller \in Volume1hInputs \ {None} :
               smaller.val <= arg[2].val =>
                   ImpactRank(impact_level(arg[1], smaller, None))
                       <= ImpactRank(ret.val.impact_level)

\* C29: at every humidity from 0 to 100 the category and the comfort impact of
\* a humidity dimension name the same interval: dry with the dry-skin text,
\* comfortable with "Optimal comfort range", humid with "May feel sticky or
\* muggy", very_humid with the heat-stress text
ComfortImpactOf(category) ==
    CASE category = "dry" -> "May cause dry skin and respiratory discomfort"
      [] category = "comfortable" -> "Optimal comfort range"
      [] category = "humid" -> "May feel sticky or muggy"
      [] category = "very_humid" -> "Uncomfortable, potential heat stress when warm"
      [] OTHER -> ""

C29_HumidityFieldsAgree ==
    fn = "create_humidity_dimension" =>
        /\ ret.exc = "none"
        /\ ret.val.comfort_impact = ComfortImpactOf(ret.val.humidity_category)

\* C30: a dataset dimension and the domain entity built from the same raw
\* inputs, with no derived field supplied, end with the same derived
\* categories and flags (or both fail to be built)
Flag(b) == IF b THEN "True" ELSE "False"

Built == ret.dataset.exc = "none" /\ ret.domain.exc = "none"

SameOutcome == (ret.dataset.exc = "none") <=> (ret.domain.exc = "none")

C30_DimensionsAndEntitiesAgree ==
    /\ fn \in {"Wind", "Temperature", "Pressure", "Humidity", "Precipitation",
               "WeatherCondition"} => SameOutcome
    /\ (fn = "Wind" /\ Built) =>
           /\ ret.dataset.val.beaufort_scale = ret.domain.val.beaufort_scale
           /\ ret.dataset.val.direction_cardinal = ret.domain.val.direction_cardinal
    /\ (fn = "Temperature" /\ Built) =>
           /\ ret.dataset.val.comfort_level = ret.domain.val.comfort_level
           /\ ret.dataset.val.temperature_category =
                  ret.domain.val.temperature_category
    /\ (fn = "Pressure" /\ Built) =>
           /\ ret.dataset.val.pressure_category = ret.domain.val.pressure_category
           /\ Flag(ret.dataset.val.is_normal_range) = ret.domain.val.is_normal_range
           /\ Flag(ret.dataset.val.storm_potential) = ret.domain.val.storm_potential
    /\ (fn = "Humidity" /\ Built) =>
           /\ ret.dataset.val.humidity_category = ret.domain.val.humidity_category
           /\ ret.dataset.val.mold_risk_level = ret.domain.val.mold_risk_level
    /\ (fn = "Precipitation" /\ Built) =>
           /\ ret.dataset.val.intensity_category = ret.domain.val.intensity_category
           /\ ret.dataset.val.impact_level = ret.domain.val.impact_level
           /\ ret.dataset.val.flooding_risk = ret.domain.val.flooding_risk
    /\ (fn = "WeatherCondition" /\ Built) =>
           ret.dataset.val.is_extreme = ret.domain.val.is_extreme
====
